---- MODULE Spec2Model ----
(***************************************************************************)
(* Quotaholder of Synnefo/Astakos: holdings, commissions and provisions,   *)
(* as astakos/quotaholder_app/callpoint.py keeps them.  Every callpoint    *)
(* function is an operator from the database state and the call's          *)
(* arguments to the new database state and the value returned (or the      *)
(* exception raised); one action per callpoint function applies it.  A     *)
(* call runs in one database transaction: an exception that leaves the     *)
(* call leaves the database as it was.                                     *)
(***************************************************************************)
EXTENDS Integers, Sequences, FiniteSets, TLC

\* ------------------------------------------------------------------ bounds

\* Serials handed out by the commission table before the model stops issuing.
MaxSerial == 2
\* Largest absolute quantity of one provision of a call.
MaxQty == 1
\* Largest limit set_quota is called with.
MaxLimit == 1
\* Longest provision list of one issue_commission call.
MaxProvisions == 2
\* Longest accept list and longest reject list of one resolve call.
MaxListLen == 2
\* Longest quota list of one set_quota call.
MaxQuotas == 1
\* Serials handed out before the services of the model stop issuing.
MaxWorkflowSerial == 3
\* Largest usage the holder has from resources other than the one looked at.
MaxOtherUsage == 1
\* Version serials handed out before the backends of the model stop writing.
MaxVersion == 5
\* Largest size of an uploaded object, in bytes.
MaxSize == 2
\* Version serials handed out before the backend instance of the model of
\* the sizes stops writing.
MaxObjectVersion == 3

\* ------------------------------------------------------------- value sets

\* The services that call the quotaholder.  The commissions of the model
\* are issued, and resolved in lists, by the first; both resolve one serial
\* at a time.
IssuingClients == {"cyclades"}
ClientKeys == {"cyclades", "pithos"}

\* (holder, source, resource): two resources of one holder.
HoldingKeys == {<<"user1", "system", "vm">>, <<"user1", "system", "disk">>}

Resources == {k[3] : k \in HoldingKeys}

\* set_quota's resource=None
NoResource == "None"

Serials == 1..MaxSerial
\* A provision of a call; a zero quantity comes about by merging.
Quantities == ((-MaxQty)..MaxQty) \ {0}
Limits == 0..MaxLimit

SeqsUpTo(S, n) == UNION {[1..m -> S] : m \in 0..n}

Range(s) == {s[i] : i \in DOMAIN s}

\* The orders in which a dict over the keys S may be iterated.
Orders(S) == {o \in [1..Cardinality(S) -> S] : \A i, j \in DOMAIN o : o[i] = o[j] => i = j}

Restrict(f, S) == [x \in S |-> f[x]]

\* -------------------------------------------------------------------- state

VARIABLES
    holdings,      \* Holding table: existing key -> [limit, usage_min, usage_max]
    commissions,   \* Commission and Provision tables: pending serial ->
                   \*   [clientkey, provisions: key -> quantity]
    nextSerial,    \* the commission table's next autoincrement serial
    provisionLog,  \* ProvisionLog table: rows [serial, key, accept]
    forced,        \* history: keys of the commissions issued with force=true
    issuers,       \* quotaholder, the issue_commission calls in progress: caller ->
                   \*   [pc, key, quantity, seen, result]
    mapCheck,      \* Pithos, an object version whose map is kept by the block
                   \*   backend: available and map_check_timestamp as committed,
                   \*   whether the block backend has the map, and the clock
    serialsTable,  \* Cyclades, QuotaHolderSerial table as committed: serial ->
                   \*   [pending, accept, resolved]
    quotable,      \* Cyclades, the resource's row as committed: [status, serial]
    request,       \* Cyclades, the request in progress and its open transaction
    reconciler,    \* Cyclades, the reconciler process: its decision in between
                   \*   resolve_pending_commissions and reconcile_resolve_commissions
    issuedFor,     \* history: serial -> the action its commission was issued for
    pithosSerials, \* Pithos, commission_serials table as committed: a set of serials
    stored,        \* Pithos, the committed mutations of the database, counted
    txn,           \* Pithos, the backend transaction in progress
    pithosReconciler, \* Pithos, the reconciler process and its decision
    failedSerials, \* history: the serials issued in transactions that failed
    versions,      \* Pithos, versions table as committed: rows
                   \*   [serial, node, cluster, pre]
    nextVersion,   \* the versions table's next autoincrement serial
    containerLocks, \* container path -> the backend whose transaction holds
                   \*   the row of the container node for update
    backend,       \* Pithos, backend -> its call in progress and the changes
                   \*   of its open transaction
    versioning,    \* the versioning policy of the containers
    props,         \* Pithos, versions table as committed, the columns of a
                   \*   row the claims on sizes need: serial -> [size, uuid]
    nodes,         \* Pithos, nodes table as committed: the object nodes
    containers,    \* Pithos, nodes table as committed: the container nodes
    freeVersioning, \* the backend's free_versioning
    containerQuota, \* container -> its quota policy, 0: unlimited
    messages,      \* self.messages of the backend instance; its entries are
                   \*   told apart by what became of the transaction that
                   \*   produced them and by how often they were sent
    in_transaction, \* self.in_transaction of the backend instance
    call,          \* history: the last top-level call of the instance
    containerPolicy, \* Pithos, the project policy of a container as
                   \*   committed, and (history) the serial of the commission
                   \*   issued by the call that stored it
    policyCall,    \* Pithos, the update_container_policy call in progress
    permissions,   \* Pithos, the permission index as the open transaction
                   \*   sees it: the read and write lists and the public
                   \*   mapping of the object, the group of the account
    permissionsCommitted, \* Pithos, the permission index as committed
    allowed_paths, \* Pithos, read_allowed_paths and write_allowed_paths of
                   \*   the backend instance; (history) whether a permission
                   \*   record changed since the entry was cached
    accessCall     \* (history) the last access check: who, what came of it

quotaholderVars == <<holdings, commissions, nextSerial, provisionLog, forced,
                     issuers, mapCheck>>
cycladesVars == <<serialsTable, quotable, request, reconciler, issuedFor>>
pithosVars == <<pithosSerials, stored, txn, pithosReconciler, failedSerials>>
versionVars == <<versions, nextVersion, containerLocks, backend, versioning>>
policyVars == <<containerPolicy, policyCall>>
accessVars == <<permissions, permissionsCommitted, allowed_paths, accessCall>>
instanceVars == <<props, nodes, containers, freeVersioning, containerQuota,
                  messages, in_transaction, accessVars>>
storeVars == <<instanceVars, call, policyVars>>
serviceVars == <<cycladesVars, pithosVars, versionVars, storeVars>>
\* What a step of Cyclades, and what a step of Pithos, leaves alone.
notCycladesVars == <<pithosVars, versionVars, storeVars>>
notPithosVars == <<cycladesVars, versionVars, storeVars>>
notVersionVars == <<quotaholderVars, cycladesVars, pithosVars, storeVars>>

vars == <<quotaholderVars, serviceVars>>

\* resource.serial is None
NoSerial == 0

\* The callers of the quotaholder that issue at the same time, and no call
\* of theirs in progress.
Callers == {"c1", "c2"}
NoIssue == [pc |-> "idle", key |-> <<>>, quantity |-> 0, seen |-> <<>>,
            result |-> "none"]
NoIssuers == [c \in Callers |-> NoIssue]

\* props[MAP_CHECK_TIMESTAMP] is None
NoTimestamp == 0
\* A version registered with available = False whose map the block backend
\* does not have, at the first tick of the clock.
NoMapCheck == [available |-> FALSE, timestamp |-> NoTimestamp,
               exists |-> FALSE, now |-> 1]

\* The services at rest: nothing stored, no request and no reconciler run
\* in progress.  The quotaholder on its own is checked in this state.
IdleRequest == [pc |-> "idle", action |-> "BUILD", rows |-> <<>>,
                res |-> [status |-> "none", serial |-> NoSerial], serial |-> NoSerial]
\* succeeded: the quotaholder has answered the last call of the reconciler.
IdleReconciler == [pc |-> "idle", accepted |-> {}, rejected |-> {}, succeeded |-> FALSE]
CycladesIdle ==
    /\ serialsTable = <<>>
    /\ quotable = [status |-> "none", serial |-> NoSerial]
    /\ request = IdleRequest
    /\ reconciler = IdleReconciler
    /\ issuedFor = <<>>
IdleTxn == [pc |-> "idle", serials |-> {}, issued |-> {}, writes |-> 0]
PithosIdle ==
    /\ pithosSerials = {}
    /\ stored = 0
    /\ txn = IdleTxn
    /\ pithosReconciler = IdleReconciler
    /\ failedSerials = {}

\* '/'
Slash == 47
\* '/'.join((account, container))
Join(account, container) == account \o <<Slash>> \o container
\* The containers of the model, (account, container): "a" and "a-" of
\* account "a".  Each holds one object, whose node is named by its container.
FirstContainer == <<(<<97>>), (<<97>>)>>
SecondContainer == <<(<<97>>), (<<97, 45>>)>>
Containers == {FirstContainer, SecondContainer}
ContainerPath(c) == Join(c[1], c[2])
ContainerPaths == {ContainerPath(c) : c \in Containers}
\* The processes that use the storage backend, one call at a time each.
Backends == {1, 2}
NoBackend == 0
\* props is None
NoVersion == 0
NoFound == [src |-> NoVersion, pre |-> NoVersion]
IdleBackend == [pc |-> "idle", lock |-> FALSE, todo |-> <<>>,
                found |-> NoFound, ins |-> {}, hist |-> {}, del |-> {}]
VersionsIdle ==
    /\ versions = {}
    /\ nextVersion = 1
    /\ containerLocks = [p \in ContainerPaths |-> NoBackend]
    /\ backend = [t \in Backends |-> IdleBackend]
    /\ versioning = "auto"
NoCall == [op |-> "none", node |-> <<>>, result |-> "none", why |-> "none",
           delta |-> 0, serial |-> NoSerial, version |-> NoVersion]
\* The project of a container is the account's own unless its policy says
\* otherwise.
Projects == {"system", "project"}
NoPolicyCall == [pc |-> "idle", serial |-> NoSerial, project |-> "system"]
PolicyIdle ==
    /\ containerPolicy = [project |-> "system", serial |-> NoSerial]
    /\ policyCall = NoPolicyCall
\* The owner of the account, and a user who is not.
Account == "account"
Users == {Account, "other"}
\* Who a permission may name: a user, or the group of the account.
Principals == {"other", "account:group"}
NoPermissions == [read |-> {}, write |-> {}, public |-> FALSE, group |-> {}]
NoAllowedPaths == [read |-> {}, write |-> {}]
NoAccessCall == [op |-> "none", user |-> Account, result |-> "none",
                 cached |-> FALSE, stale |-> FALSE, fresh |-> FALSE]
AccessIdle ==
    /\ permissions = NoPermissions
    /\ permissionsCommitted = NoPermissions
    /\ allowed_paths = NoAllowedPaths
    /\ accessCall = NoAccessCall
StoreIdle ==
    /\ PolicyIdle
    /\ AccessIdle
    /\ props = <<>>
    /\ nodes = {}
    /\ containers = Containers
    /\ freeVersioning = TRUE
    /\ containerQuota = [c \in Containers |-> 0]
    /\ messages = {}
    /\ in_transaction = FALSE
    /\ call = NoCall
ServicesIdle == CycladesIdle /\ PithosIdle /\ VersionsIdle /\ StoreIdle

\* ------------------------------------------------- quotaholder_app.models

\* A new Holding row: usage_min and usage_max default to 0.
Holding(limit) == [limit |-> limit, usage_min |-> 0, usage_max |-> 0]

\* --------------------------------------------- quotaholder_app.commission

\* Import: reserve quantity on the upper bound, within the limit when checked.
Import_prepare(holding, quantity, check) ==
    LET new_usage_max == holding.usage_max + quantity
    IN  IF check /\ new_usage_max > holding.limit
        THEN [ok |-> FALSE, holding |-> holding]
        ELSE [ok |-> TRUE, holding |-> [holding EXCEPT !.usage_max = new_usage_max]]

\* Release: lower the lower bound at once, never below zero when checked.
Release_prepare(holding, quantity, check) ==
    LET new_usage_min == holding.usage_min - quantity
    IN  IF check /\ new_usage_min < 0
        THEN [ok |-> FALSE, holding |-> holding]
        ELSE [ok |-> TRUE, holding |-> [holding EXCEPT !.usage_min = new_usage_min]]

\* Operations.prepare(operation, holding, quantity, force)
Operations_prepare(operation, holding, quantity, force) ==
    IF operation = "Import"
    THEN Import_prepare(holding, quantity, ~force)
    ELSE Release_prepare(holding, quantity, ~force)

\* Operations.revert(): every prepared operation is prepared again with the
\* negated quantity and no check.
RECURSIVE Operations_revert(_, _, _)
Operations_revert(hs, operations, i) ==
    IF i > Len(operations) THEN hs
    ELSE LET op == operations[i]
             h  == Operations_prepare(op.operation, hs[op.key], -op.quantity, TRUE).holding
         IN  Operations_revert([hs EXCEPT ![op.key] = h], operations, i + 1)

\* finalize(operation, holding, quantity): accept
finalize(operation, holding, quantity) ==
    IF operation = "Import"
    THEN [holding EXCEPT !.usage_min = @ + quantity]
    ELSE [holding EXCEPT !.usage_max = @ - quantity]

\* undo(operation, holding, quantity): reject
undo(operation, holding, quantity) ==
    Operations_prepare(operation, holding, -quantity, TRUE).holding

\* ----------------------------------------------- quotaholder_app.callpoint

delete_quota(hs, keys) == Restrict(hs, DOMAIN hs \ keys)

\* The rows the query of _get_holdings_for_update selects.
holdings_query(hs, holding_keys, resource) ==
    LET holders == {k[1] : k \in holding_keys}
    IN  {k \in DOMAIN hs : k[1] \in holders /\ (resource = NoResource \/ k[3] = resource)}

\* Mutant: the rows selected but not asked for are not put back.
get_holdings_for_update_no_put_back(hs, holding_keys, resource, delete) ==
    LET objs  == holdings_query(hs, holding_keys, resource)
        found == objs \cap holding_keys
    IN  [holdings |-> Restrict(hs, found),
         table    |-> IF delete THEN Restrict(hs, DOMAIN hs \ objs) ELSE hs]

\* _get_holdings_for_update: the dict it returns, and the table it leaves
\* (with delete, the selected rows are deleted and those not asked for are
\* put back).
get_holdings_for_update(hs, holding_keys, resource, delete) ==
    LET objs     == holdings_query(hs, holding_keys, resource)
        found    == objs \cap holding_keys
        put_back == objs \ holding_keys
    IN  [holdings |-> Restrict(hs, found),
         table    |-> IF delete
                      THEN Restrict(hs, (DOMAIN hs \ objs) \cup put_back)
                      ELSE hs]

\* set_quota's loop: new_holdings after quotas[i..], a later pair of a key
\* replacing an earlier one.
RECURSIVE new_holdings_loop(_, _, _, _, _)
new_holdings_loop(new_holdings, old, quotas, resource, i) ==
    IF i > Len(quotas) THEN new_holdings
    ELSE LET key   == quotas[i][1]
             limit == quotas[i][2]
             h     == IF key \in DOMAIN old
                      THEN [Holding(limit) EXCEPT !.usage_min = old[key].usage_min,
                                                  !.usage_max = old[key].usage_max]
                      ELSE Holding(limit)
         IN  IF resource # NoResource /\ resource # key[3]
             THEN new_holdings_loop(new_holdings, old, quotas, resource, i + 1)
             ELSE new_holdings_loop(
                      [k \in DOMAIN new_holdings \cup {key} |->
                          IF k = key THEN h ELSE new_holdings[k]],
                      old, quotas, resource, i + 1)

EmptyMap == [k \in {} |-> 0]

set_quota(hs, quotas, resource) ==
    LET holding_keys == {quotas[i][1] : i \in DOMAIN quotas}
        got          == get_holdings_for_update(hs, holding_keys, resource, TRUE)
        new_holdings == new_holdings_loop(EmptyMap, got.holdings, quotas, resource, 1)
    IN  [k \in DOMAIN got.table \cup DOMAIN new_holdings |->
            IF k \in DOMAIN new_holdings THEN new_holdings[k] ELSE got.table[k]]

\* _partition_by with convert, summed: the quantities given for one key.
RECURSIVE sum_values(_, _, _)
sum_values(provisions, key, i) ==
    IF i > Len(provisions) THEN 0
    ELSE (IF provisions[i][1] = key THEN provisions[i][2] ELSE 0)
         + sum_values(provisions, key, i + 1)

merge_same_keys(provisions) ==
    [key \in {provisions[i][1] : i \in DOMAIN provisions} |-> sum_values(provisions, key, 1)]

\* Mutant: the force flag does not reach Import, whose limit is always checked.
prepare_provision_import_checked(th, quantity, force) ==
    IF quantity >= 0
    THEN Operations_prepare("Import", th, quantity, FALSE)
    ELSE Operations_prepare("Release", th, -quantity, FALSE)

\* Mutant: a release is left for the accept, nothing is done when it is issued.
prepare_provision_release_deferred(th, quantity, force) ==
    IF quantity >= 0
    THEN Operations_prepare("Import", th, quantity, force)
    ELSE [ok |-> TRUE, holding |-> th]

\* Mutant: no import is checked against the limit.
prepare_provision_import_unchecked(th, quantity, force) ==
    IF quantity >= 0
    THEN Operations_prepare("Import", th, quantity, TRUE)
    ELSE Operations_prepare("Release", th, -quantity, FALSE)

\* Mutant: the force flag is passed on to Release as it is to Import.
prepare_provision_release_forced(th, quantity, force) ==
    IF quantity >= 0
    THEN Operations_prepare("Import", th, quantity, force)
    ELSE Operations_prepare("Release", th, -quantity, force)

\* One provision of issue_commission's loop on its target holding.
prepare_provision(th, quantity, force) ==
    IF quantity >= 0
    THEN Operations_prepare("Import", th, quantity, force)
    ELSE Operations_prepare("Release", th, -quantity, FALSE)

\* issue_commission's loop over the merged provisions, in dict order.
RECURSIVE prepare_loop(_, _, _, _, _, _)
prepare_loop(hs, found, tuples, force, operations, i) ==
    IF i > Len(tuples)
    THEN [status |-> "ok", holdings |-> hs, operations |-> operations]
    ELSE LET key      == tuples[i][1]
             quantity == tuples[i][2]
         IN  IF key \notin found
             THEN [status |-> "NoHoldingError", holdings |-> hs, operations |-> operations]
             ELSE LET r == prepare_provision(hs[key], quantity, force)
                      op == [operation |-> IF quantity >= 0 THEN "Import" ELSE "Release",
                             key |-> key,
                             quantity |-> IF quantity >= 0 THEN quantity ELSE -quantity]
                  IN  IF ~r.ok
                      THEN [status |-> "QuotaLimit", holdings |-> hs,
                            operations |-> operations]
                      ELSE prepare_loop([hs EXCEPT ![key] = r.holding], found, tuples,
                                        force, Append(operations, op), i + 1)

\* Mutant: the error is raised without reverting what was prepared.
on_quotaholder_error_no_revert(hs, operations) == hs

\* except QuotaholderError: operations.revert(); raise
on_quotaholder_error(hs, operations) == Operations_revert(hs, operations, 1)

\* issue_commission on the tables (hs, cms) with the next serial: the new
\* tables and the serial returned, or the error raised.  order is the order
\* in which the merged dict is iterated.
issue_commission(hs, cms, serial, clientkey, provisions, force, order) ==
    LET merged == merge_same_keys(provisions)
        tuples == [i \in DOMAIN order |-> <<order[i], merged[order[i]]>>]
        found  == DOMAIN get_holdings_for_update(hs, DOMAIN merged, NoResource, FALSE).holdings
        r      == prepare_loop(hs, found, tuples, force, <<>>, 1)
    IN  IF r.status # "ok"
        THEN [status |-> r.status, serial |-> 0,
              holdings |-> on_quotaholder_error(r.holdings, r.operations),
              commissions |-> cms]
        ELSE [status |-> "ok", serial |-> serial,
              holdings |-> r.holdings,
              commissions |->
                  [s \in DOMAIN cms \cup {serial} |->
                      IF s = serial
                      THEN [clientkey |-> clientkey, provisions |-> merged]
                      ELSE cms[s]]]

\* resolve_pending_commissions' loop over reject_set: the actions dict
\* (serial -> accept?) and the conflicting set after reject_set[i..].
RECURSIVE reject_loop(_, _, _, _)
reject_loop(actions, conflicting, reject_set, i) ==
    IF i > Len(reject_set)
    THEN [actions |-> actions, conflicting |-> conflicting]
    ELSE LET serial == reject_set[i]
         IN  IF serial \in DOMAIN actions /\ actions[serial]
             THEN reject_loop(Restrict(actions, DOMAIN actions \ {serial}),
                              conflicting \cup {serial}, reject_set, i + 1)
             ELSE reject_loop([s \in DOMAIN actions \cup {serial} |->
                                  IF s = serial THEN FALSE ELSE actions[s]],
                              conflicting, reject_set, i + 1)

\* _get_commissions_for_update
get_commissions_for_update(cms, clientkey, serials) ==
    Restrict(cms, {s \in DOMAIN cms : s \in serials /\ cms[s].clientkey = clientkey})

\* Mutant: a rejected provision is finalized like an accepted one.
RECURSIVE resolve_provisions_always_finalize(_, _, _, _, _)
resolve_provisions_always_finalize(hs, ps, accept, ks, i) ==
    IF i > Len(ks) THEN hs
    ELSE LET key      == ks[i]
             quantity == ps[key]
             h        == IF quantity >= 0
                         THEN finalize("Import", hs[key], quantity)
                         ELSE finalize("Release", hs[key], -quantity)
         IN  resolve_provisions_always_finalize([hs EXCEPT ![key] = h], ps, accept, ks, i + 1)

\* The provisions of one commission applied to the holdings, in the order
\* ks of its keys: finalize when accepted, undo when rejected.
RECURSIVE resolve_provisions(_, _, _, _, _)
resolve_provisions(hs, ps, accept, ks, i) ==
    IF i > Len(ks) THEN hs
    ELSE LET key      == ks[i]
             quantity == ps[key]
             h        == IF accept
                         THEN IF quantity >= 0
                              THEN finalize("Import", hs[key], quantity)
                              ELSE finalize("Release", hs[key], -quantity)
                         ELSE IF quantity >= 0
                              THEN undo("Import", hs[key], quantity)
                              ELSE undo("Release", hs[key], -quantity)
         IN  resolve_provisions([hs EXCEPT ![key] = h], ps, accept, ks, i + 1)

\* Some order of the finite set S (the updates of a call add up the same
\* way in every order).
RECURSIVE SomeOrder(_)
SomeOrder(S) ==
    IF S = {} THEN <<>>
    ELSE LET x == CHOOSE y \in S : TRUE IN <<x>> \o SomeOrder(S \ {x})

\* resolve_pending_commissions' loop over the commissions found.
RECURSIVE resolve_loop(_, _, _, _, _)
resolve_loop(hs, cms, actions, found, i) ==
    IF i > Len(found) THEN hs
    ELSE LET serial == found[i]
             ps     == cms[serial].provisions
         IN  resolve_loop(
                 resolve_provisions(hs, ps, actions[serial], SomeOrder(DOMAIN ps), 1),
                 cms, actions, found, i + 1)

\* Mutant: a resolved commission and its provisions are left in the tables.
delete_resolved_kept(cms, found) == cms

\* pv.delete() of every provision and commission.delete() of every
\* commission resolved.
delete_resolved(cms, found) == Restrict(cms, DOMAIN cms \ found)

\* resolve_pending_commissions on the tables (hs, cms, log): the new tables
\* and the four lists returned, or CorruptedError.
resolve_pending_commissions(hs, cms, log, clientkey, accept_set, reject_set) ==
    LET init        == [s \in Range(accept_set) |-> TRUE]
        r           == reject_loop(init, {}, reject_set, 1)
        actions     == r.actions
        serials     == DOMAIN actions
        commissions_found == get_commissions_for_update(cms, clientkey, serials)
        found       == DOMAIN commissions_found
        ps_keys     == UNION {DOMAIN cms[s].provisions : s \in DOMAIN cms \cap serials}
        hkeys       == DOMAIN get_holdings_for_update(hs, ps_keys, NoResource, FALSE).holdings
        corrupted   == \E s \in found : \E k \in DOMAIN cms[s].provisions : k \notin hkeys
        newrows     == UNION {{[serial |-> s, key |-> k,
                                accept |-> actions[s]] :
                                    k \in DOMAIN cms[s].provisions} : s \in found}
    IN  IF corrupted
        THEN [status |-> "CorruptedError", holdings |-> hs, commissions |-> cms,
              log |-> log, accepted |-> {}, rejected |-> {}, notFound |-> {},
              conflicting |-> {}]
        ELSE [status |-> "ok",
              holdings |-> resolve_loop(hs, cms, actions, SomeOrder(found), 1),
              commissions |-> delete_resolved(cms, found),
              log |-> log \cup newrows,
              accepted |-> {s \in found : actions[s]},
              rejected |-> {s \in found : ~actions[s]},
              notFound |-> serials \ found,
              conflicting |-> r.conflicting]

\* resolve_pending_commission: one serial, accepted or rejected; the tables
\* and whether the serial was resolved.
resolve_pending_commission(hs, cms, log, clientkey, serial, accept) ==
    LET r == IF accept
             THEN resolve_pending_commissions(hs, cms, log, clientkey, <<serial>>, <<>>)
             ELSE resolve_pending_commissions(hs, cms, log, clientkey, <<>>, <<serial>>)
        ok == IF accept THEN r.accepted ELSE r.rejected
    IN  [status |-> r.status, holdings |-> r.holdings, commissions |-> r.commissions,
         log |-> r.log, resolved |-> ok # {}]

\* ------------------------------------------------------------------ actions

Init ==
    /\ holdings = EmptyMap
    /\ commissions = EmptyMap
    /\ nextSerial = 1
    /\ provisionLog = {}
    /\ forced = {}
    /\ issuers = NoIssuers
    /\ mapCheck = NoMapCheck
    /\ ServicesIdle

IssueCommission(clientkey, provisions, force, order) ==
    /\ nextSerial <= MaxSerial
    /\ LET r == issue_commission(holdings, commissions, nextSerial,
                                 clientkey, provisions, force, order)
       IN  /\ holdings' = r.holdings
           /\ commissions' = r.commissions
           /\ nextSerial' = IF r.status = "ok" THEN nextSerial + 1 ELSE nextSerial
           /\ forced' = IF r.status = "ok" /\ force
                        THEN forced \cup DOMAIN merge_same_keys(provisions)
                        ELSE forced
           /\ UNCHANGED <<issuers, mapCheck>>
    /\ UNCHANGED <<provisionLog, serviceVars>>

ResolvePendingCommissions(clientkey, accept_set, reject_set) ==
    /\ LET r == resolve_pending_commissions(holdings, commissions, provisionLog,
                                            clientkey, accept_set, reject_set)
       IN  /\ holdings' = r.holdings
           /\ commissions' = r.commissions
           /\ provisionLog' = r.log
    /\ UNCHANGED <<nextSerial, forced, issuers, mapCheck, serviceVars>>

ResolvePendingCommission(clientkey, serial, accept) ==
    /\ LET r == resolve_pending_commission(holdings, commissions, provisionLog,
                                           clientkey, serial, accept)
       IN  /\ holdings' = r.holdings
           /\ commissions' = r.commissions
           /\ provisionLog' = r.log
    /\ UNCHANGED <<nextSerial, forced, issuers, mapCheck, serviceVars>>

SetQuota(quotas, resource) ==
    /\ holdings' = set_quota(holdings, quotas, resource)
    /\ UNCHANGED <<commissions, nextSerial, provisionLog, forced, issuers, mapCheck, serviceVars>>

DeleteQuota(keys) ==
    /\ holdings' = delete_quota(holdings, keys)
    /\ UNCHANGED <<commissions, nextSerial, provisionLog, forced, issuers, mapCheck, serviceVars>>

\* The arguments of the calls, from the bounded sets.
ProvisionLists == SeqsUpTo(HoldingKeys \X Quantities, MaxProvisions)
SerialLists == SeqsUpTo(Serials, MaxListLen)
QuotaLists == SeqsUpTo(HoldingKeys \X Limits, MaxQuotas)

SomeIssueCommission ==
    \E clientkey \in IssuingClients, force \in BOOLEAN, provisions \in ProvisionLists :
        \E order \in Orders(DOMAIN merge_same_keys(provisions)) :
            IssueCommission(clientkey, provisions, force, order)

SomeResolvePendingCommissions ==
    \E clientkey \in IssuingClients, accept_set \in SerialLists, reject_set \in SerialLists :
        ResolvePendingCommissions(clientkey, accept_set, reject_set)

SomeResolvePendingCommission ==
    \E clientkey \in ClientKeys, serial \in Serials, accept \in BOOLEAN :
        ResolvePendingCommission(clientkey, serial, accept)

SomeSetQuota ==
    \E quotas \in QuotaLists, resource \in Resources \cup {NoResource} :
        SetQuota(quotas, resource)

SomeDeleteQuota ==
    \E keys \in SUBSET HoldingKeys : DeleteQuota(keys)

Next ==
    \/ SomeIssueCommission
    \/ SomeResolvePendingCommissions
    \/ SomeResolvePendingCommission
    \/ SomeSetQuota
    \/ SomeDeleteQuota

Spec == Init /\ [][Next]_vars

\* The same without delete_quota.
NextNoDelete ==
    \/ SomeIssueCommission
    \/ SomeResolvePendingCommissions
    \/ SomeResolvePendingCommission
    \/ SomeSetQuota

SpecNoDelete == Init /\ [][NextNoDelete]_vars

\* ------------------------------------------------------------------- claims

\* What a call made in the current state does.
IssueOutcome(clientkey, provisions, force, order) ==
    issue_commission(holdings, commissions, nextSerial, clientkey, provisions, force, order)

ResolveOutcome(clientkey, accept_set, reject_set) ==
    resolve_pending_commissions(holdings, commissions, provisionLog,
                                clientkey, accept_set, reject_set)

\* A merged provision of the call fails its check in the current state: no
\* such holding, an import over the limit (force=false), a release below 0.
FailsCheck(merged, force) ==
    \E k \in DOMAIN merged :
        \/ k \notin DOMAIN holdings
        \/ /\ k \in DOMAIN holdings
           /\ \/ merged[k] >= 0 /\ ~force
                 /\ holdings[k].usage_max + merged[k] > holdings[k].limit
              \/ merged[k] < 0 /\ holdings[k].usage_min + merged[k] < 0

\* C1: in every state reachable by issue_commission,
\* resolve_pending_commissions, set_quota and delete_quota calls, every
\* holding has 0 <= usage_min <= usage_max.
C1_UsageOrdered ==
    \A k \in DOMAIN holdings :
        0 <= holdings[k].usage_min /\ holdings[k].usage_min <= holdings[k].usage_max

\* C2: issue_commission is all-or-nothing.  In every reachable state, a call
\* one of whose merged provisions fails its check raises, leaves every
\* holding with the (limit, usage_min, usage_max) it had, and creates no
\* commission and no provision (it returns no serial).
C2_IssueAllOrNothing ==
    \A clientkey \in ClientKeys, force \in BOOLEAN, provisions \in ProvisionLists :
        \A order \in Orders(DOMAIN merge_same_keys(provisions)) :
            LET r == IssueOutcome(clientkey, provisions, force, order)
            IN  FailsCheck(merge_same_keys(provisions), force) =>
                    /\ r.status # "ok"
                    /\ r.serial = 0
                    /\ r.holdings = holdings
                    /\ r.commissions = commissions

\* C2's case: a call that prepares one provision, changing a holding, fails
\* on the next and has to revert.
C2_Witness ==
    \E force \in BOOLEAN, provisions \in ProvisionLists :
        \E order \in Orders(DOMAIN merge_same_keys(provisions)) :
            LET merged == merge_same_keys(provisions)
                tuples == [i \in DOMAIN order |-> <<order[i], merged[order[i]]>>]
                r      == prepare_loop(holdings, DOMAIN holdings, tuples, force, <<>>, 1)
            IN  /\ r.status = "QuotaLimit"
                /\ r.operations # <<>>
                /\ r.holdings # holdings
                /\ IssueOutcome("cyclades", provisions, force, order).holdings = holdings

\* C4: an import (merged quantity q >= 0 for a key) on holding h.  A call
\* with force=false succeeds only if h.usage_max + q <= h.limit; on success
\* usage_max grows by exactly q and limit and usage_min stay; with force=true
\* the limit is not checked: the call succeeds whenever every key has a
\* holding and every release passes its check.
C4_Import ==
    \A clientkey \in ClientKeys, force \in BOOLEAN, provisions \in ProvisionLists :
        \A order \in Orders(DOMAIN merge_same_keys(provisions)) :
            LET merged == merge_same_keys(provisions)
                r      == IssueOutcome(clientkey, provisions, force, order)
            IN  /\ \A k \in DOMAIN merged :
                       (merged[k] >= 0 /\ r.status = "ok") =>
                           /\ force \/ holdings[k].usage_max + merged[k] <= holdings[k].limit
                           /\ r.holdings[k].usage_max = holdings[k].usage_max + merged[k]
                           /\ r.holdings[k].usage_min = holdings[k].usage_min
                           /\ r.holdings[k].limit = holdings[k].limit
                /\ (force /\ \A k \in DOMAIN merged :
                                /\ k \in DOMAIN holdings
                                /\ merged[k] < 0 => holdings[k].usage_min + merged[k] >= 0)
                       => r.status = "ok"

\* C4's case: a forced import has taken a holding over every limit of the
\* model, and an unforced import has been reserved within its limit.
C4_Witness ==
    /\ \E k \in DOMAIN holdings : k \in forced /\ holdings[k].usage_max > MaxLimit
    /\ \E k \in DOMAIN holdings :
           /\ k \notin forced
           /\ holdings[k].usage_max > holdings[k].usage_min
           /\ holdings[k].usage_max = holdings[k].limit

\* C5: a release (merged quantity q < 0 for a key) on holding h.  A call
\* succeeds only if h.usage_min + q >= 0, with force=true as well; on success
\* usage_min drops by |q| at once and usage_max and limit stay.
C5_Release ==
    \A clientkey \in ClientKeys, force \in BOOLEAN, provisions \in ProvisionLists :
        \A order \in Orders(DOMAIN merge_same_keys(provisions)) :
            LET merged == merge_same_keys(provisions)
                r      == IssueOutcome(clientkey, provisions, force, order)
            IN  \A k \in DOMAIN merged :
                    (merged[k] < 0 /\ r.status = "ok") =>
                        /\ holdings[k].usage_min + merged[k] >= 0
                        /\ r.holdings[k].usage_min = holdings[k].usage_min + merged[k]
                        /\ r.holdings[k].usage_max = holdings[k].usage_max
                        /\ r.holdings[k].limit = holdings[k].limit

\* C5's case: a release is pending, its holding's usage_min already lowered
\* and its usage_max not, while a forced release of more than the holding
\* has is refused.
C5_Witness ==
    \E s \in DOMAIN commissions : \E k \in DOMAIN commissions[s].provisions :
        /\ commissions[s].provisions[k] < 0
        /\ k \in DOMAIN holdings
        /\ holdings[k].usage_min = 0
        /\ holdings[k].usage_max = -commissions[s].provisions[k]
        /\ IssueOutcome("cyclades", <<<<k, -1>>>>, TRUE, <<k>>).status = "QuotaLimit"

\* The serials that have been resolved: those with a row in the log, and
\* those issued that are pending no more.
Resolved ==
    {row.serial : row \in provisionLog} \cup ((1..(nextSerial - 1)) \ DOMAIN commissions)

Without(list, serial) == SelectSeq(list, LAMBDA x : x # serial)

\* C3: a serial is resolved at most once.  Once a serial has been accepted or
\* rejected, every later resolve_pending_commissions call that names it, in
\* either list, reports it in not_found and changes no holding on its
\* account.
C3_ResolvedNotFound ==
    \A s \in Resolved :
        \A clientkey \in ClientKeys, accept_set \in SerialLists, reject_set \in SerialLists :
            LET r       == ResolveOutcome(clientkey, accept_set, reject_set)
                without == ResolveOutcome(clientkey, Without(accept_set, s),
                                          Without(reject_set, s))
            IN  (s \in Range(accept_set) \cup Range(reject_set) /\ r.status = "ok") =>
                    /\ s \in r.notFound
                    /\ r.holdings = without.holdings

\* C3 as amended: once a serial has been accepted or rejected, no later
\* resolve_pending_commissions call resolves it again (it is in neither
\* accepted nor rejected) and every call leaves the holdings, the pending
\* commissions and the log as the same call without that serial does; a call
\* that returns reports the serial in not_found when it is named in one of
\* the two lists only, and in conflicting when it is named in both.
C3_ResolvedOnce ==
    \A s \in Resolved :
        \A clientkey \in ClientKeys, accept_set \in SerialLists, reject_set \in SerialLists :
            LET r       == ResolveOutcome(clientkey, accept_set, reject_set)
                without == ResolveOutcome(clientkey, Without(accept_set, s),
                                          Without(reject_set, s))
                inBoth  == s \in Range(accept_set) /\ s \in Range(reject_set)
            IN  s \in Range(accept_set) \cup Range(reject_set) =>
                    /\ s \notin r.accepted \cup r.rejected
                    /\ (r.status = "ok" /\ ~inBoth) => s \in r.notFound
                    /\ (r.status = "ok" /\ inBoth) => s \in r.conflicting
                    /\ r.holdings = without.holdings
                    /\ r.commissions = without.commissions
                    /\ r.log = without.log

\* C3's case: a serial with provisions has been resolved, another commission
\* is still pending, and a call naming both resolves the pending one and
\* reports the resolved one in not_found.
C3_Witness ==
    \E row \in provisionLog : \E p \in DOMAIN commissions :
        LET r == ResolveOutcome(commissions[p].clientkey, <<row.serial, p>>, <<>>)
        IN  /\ row.serial \notin DOMAIN commissions
            /\ commissions[p].provisions # EmptyMap
            /\ r.status = "ok"
            /\ r.accepted = {p}
            /\ r.notFound = {row.serial}
            /\ r.holdings # holdings

\* The other pending commissions with a provision on key k.
OthersOn(k, s) == {o \in DOMAIN commissions \ {s} : k \in DOMAIN commissions[o].provisions}

\* C6: accepting a pending commission finalizes each of its provisions: an
\* import of q raises usage_min by q and leaves usage_max, a release of |q|
\* lowers usage_max by |q| and leaves usage_min; so a holding with no other
\* pending commission ends with usage_min = usage_max (the previous usage
\* plus q).
C6_AcceptFinalizes ==
    \A s \in DOMAIN commissions :
        LET c == commissions[s]
            r == ResolveOutcome(c.clientkey, <<s>>, <<>>)
        IN  r.status = "ok" =>
                \A k \in DOMAIN c.provisions :
                    LET q  == c.provisions[k]
                        h  == holdings[k]
                        h2 == r.holdings[k]
                    IN  /\ q >= 0 => /\ h2.usage_min = h.usage_min + q
                                     /\ h2.usage_max = h.usage_max
                        /\ q < 0  => /\ h2.usage_max = h.usage_max + q
                                     /\ h2.usage_min = h.usage_min
                        /\ OthersOn(k, s) = {} => h2.usage_min = h2.usage_max

\* What issuing the provision q left on holding h, taken away again.
IssueEffectUndone(h, q) ==
    IF q >= 0 THEN [h EXCEPT !.usage_max = @ - q] ELSE [h EXCEPT !.usage_min = @ - q]

\* C7: rejecting a pending commission undoes exactly its own issue-time
\* effect.  In every reachable state, whatever was issued or resolved since
\* the commission was issued, rejecting it lowers usage_max by q for each of
\* its imports, raises usage_min by |q| for each of its releases and changes
\* nothing else of any holding; and a commission issued and rejected at once
\* leaves every holding and the pending commissions as they were.
C7_RejectUndoesIssue ==
    /\ \A s \in DOMAIN commissions :
           LET c == commissions[s]
               r == ResolveOutcome(c.clientkey, <<>>, <<s>>)
           IN  r.status = "ok" =>
                   /\ DOMAIN r.holdings = DOMAIN holdings
                   /\ \A k \in DOMAIN holdings :
                          r.holdings[k] = IF k \in DOMAIN c.provisions
                                          THEN IssueEffectUndone(holdings[k], c.provisions[k])
                                          ELSE holdings[k]
    /\ \A clientkey \in ClientKeys, force \in BOOLEAN, provisions \in ProvisionLists :
           \A order \in Orders(DOMAIN merge_same_keys(provisions)) :
               LET i == IssueOutcome(clientkey, provisions, force, order)
                   r == resolve_pending_commissions(i.holdings, i.commissions, provisionLog,
                                                    clientkey, <<>>, <<i.serial>>)
               IN  i.status = "ok" =>
                       /\ r.status = "ok"
                       /\ r.rejected = {i.serial}
                       /\ r.holdings = holdings
                       /\ r.commissions = commissions

\* C7's case: a commission has been rejected after a later commission was
\* issued on the same holding, the later one is still pending, and the
\* holding carries the pending quantity of the later one only.
C7_Witness ==
    \E row \in provisionLog : \E p \in DOMAIN commissions :
        /\ ~row.accept
        /\ p > row.serial
        /\ row.key \in DOMAIN commissions[p].provisions
        /\ row.key \in DOMAIN holdings
        /\ commissions[p].provisions[row.key] > 0
        /\ holdings[row.key].usage_max - holdings[row.key].usage_min
               = commissions[p].provisions[row.key]
        /\ holdings[row.key].usage_max <= holdings[row.key].limit

WithinLimit(h) == h.usage_max <= h.limit

\* C8: in every state reachable by issue_commission,
\* resolve_pending_commissions and set_quota calls, every holding has
\* usage_max <= limit unless some commission on that holding was issued with
\* force=true.
C8_WithinLimitUnlessForced ==
    \A k \in DOMAIN holdings : WithinLimit(holdings[k]) \/ k \in forced

\* C8 as amended: a holding has usage_max <= limit unless some commission
\* on it was issued with force=true or set_quota has put its limit below
\* its usage_max.  A new holding is within its limit, and a holding that is
\* within its limit and was never forced stays so in every call but a
\* set_quota that lowers its limit and leaves its usage.
C8_ExceededOnlyByForceOrSetQuota ==
    [][\A k \in DOMAIN holdings' :
           \/ WithinLimit(holdings'[k]) \/ k \in forced'
           \/ /\ k \in DOMAIN holdings
              /\ ~(WithinLimit(holdings[k]) \/ k \in forced)
           \/ /\ k \in DOMAIN holdings
              /\ holdings'[k].limit < holdings[k].limit
              /\ holdings'[k].usage_max = holdings[k].usage_max
              /\ holdings'[k].usage_min = holdings[k].usage_min
              /\ commissions' = commissions]_vars

\* C8's case: a holding no commission was forced on is over the limit that
\* set_quota gave it, while an import into it is refused.
C8_Witness ==
    \E k \in DOMAIN holdings :
        /\ k \notin forced
        /\ holdings[k].usage_max > holdings[k].limit
        /\ IssueOutcome("cyclades", <<<<k, 1>>>>, FALSE, <<k>>).status = "QuotaLimit"

\* C9: a serial that is in both the accept and the reject list (also when a
\* list repeats it) is returned as conflicting, is not resolved (a pending
\* one stays pending), and no holding is changed on its account.
C9_ConflictingNotResolved ==
    \A clientkey \in ClientKeys, accept_set \in SerialLists, reject_set \in SerialLists :
        \A s \in Range(accept_set) \cap Range(reject_set) :
            LET r       == ResolveOutcome(clientkey, accept_set, reject_set)
                without == ResolveOutcome(clientkey, Without(accept_set, s),
                                          Without(reject_set, s))
            IN  r.status = "ok" =>
                    /\ s \in r.conflicting
                    /\ s \notin r.accepted \cup r.rejected
                    /\ s \in DOMAIN commissions => s \in DOMAIN r.commissions
                    /\ r.holdings = without.holdings

\* The quantities pending on key k, as they count for usage_max - usage_min.
RECURSIVE PendingSum(_, _, _)
PendingSum(k, serials, positiveOnly) ==
    IF serials = {} THEN 0
    ELSE LET s == CHOOSE x \in serials : TRUE
             q == IF k \in DOMAIN commissions[s].provisions
                  THEN commissions[s].provisions[k] ELSE 0
         IN  (IF q >= 0 THEN q ELSE IF positiveOnly THEN 0 ELSE -q)
             + PendingSum(k, serials \ {s}, positiveOnly)

QuotaListsTwice == SeqsUpTo(HoldingKeys \X Limits, MaxQuotas + 1)

ListedKeys(quotas) == {quotas[i][1] : i \in DOMAIN quotas}

GivenLimits(quotas, key) == {quotas[i][2] : i \in {j \in DOMAIN quotas : quotas[j][1] = key}}

\* The limit of the last pair of the list that names the key.
LastLimit(quotas, key) ==
    LET last == CHOOSE i \in DOMAIN quotas :
                    /\ quotas[i][1] = key
                    /\ \A j \in DOMAIN quotas : quotas[j][1] = key => j <= i
    IN  quotas[last][2]

\* C11: set_quota changes only limits.  Every listed key that has a holding
\* keeps usage_min and usage_max; every holding whose key is not listed keeps
\* limit, usage_min and usage_max; a listed key without a holding gets a new
\* holding with the limit given for it.
C11_SetQuotaFrame ==
    \A quotas \in QuotaListsTwice, resource \in Resources \cup {NoResource} :
        LET after  == set_quota(holdings, quotas, resource)
            listed == ListedKeys(quotas)
        IN  /\ \A k \in listed \cap DOMAIN holdings :
                   /\ k \in DOMAIN after
                   /\ after[k].usage_min = holdings[k].usage_min
                   /\ after[k].usage_max = holdings[k].usage_max
            /\ \A k \in DOMAIN holdings \ listed :
                   k \in DOMAIN after /\ after[k] = holdings[k]
            /\ \A k \in listed \ DOMAIN holdings :
                   k \in DOMAIN after /\ after[k].limit \in GivenLimits(quotas, k)

\* C11 as amended: set_quota changes only limits.  A listed key is taken
\* when the call gives no resource or the key's resource is the one given;
\* a listed key of another resource is skipped.  A taken key that has a
\* holding keeps usage_min and usage_max and gets the limit of its last pair
\* in the list; a taken key without a holding gets a new holding with that
\* limit; a skipped key gets no holding and keeps the one it
\* has; every holding whose key is not listed keeps limit, usage_min and
\* usage_max; no other holding appears.
C11_SetQuotaFrameOfTaken ==
    \A quotas \in QuotaListsTwice, resource \in Resources \cup {NoResource} :
        LET after  == set_quota(holdings, quotas, resource)
            listed == ListedKeys(quotas)
            taken  == {k \in listed : resource = NoResource \/ k[3] = resource}
        IN  /\ DOMAIN after = DOMAIN holdings \cup taken
            /\ \A k \in taken \cap DOMAIN holdings :
                   after[k] = [holdings[k] EXCEPT !.limit = LastLimit(quotas, k)]
            /\ \A k \in taken \ DOMAIN holdings :
                   after[k].limit = LastLimit(quotas, k)
            /\ \A k \in DOMAIN holdings \ taken : after[k] = holdings[k]

\* C11's case: one key has a holding with a pending import and its limit is
\* replaced, the other key has none and gets one, and a call for the other
\* resource skips the listed key.
C11_Witness ==
    \E k \in DOMAIN holdings, n \in HoldingKeys \ DOMAIN holdings :
        /\ holdings[k].usage_max > holdings[k].usage_min
        /\ holdings[k].limit = 1
        /\ set_quota(holdings, <<<<k, 0>>, <<n, 1>>>>, NoResource)
               = (k :> [holdings[k] EXCEPT !.limit = 0]) @@ (n :> Holding(1))
        /\ set_quota(holdings, <<<<n, 1>>>>, k[3]) = holdings

\* ============================================================ synnefo.quotas
\* The commission workflow of Cyclades for one quotable resource (a private
\* Network or a floating IPAddress: one unit of one quotaholder resource)
\* of a holder who uses MaxOtherUsage units besides it and may use one more.
\* A request runs issue_and_accept_commission inside the transaction that
\* creates or deletes the resource; what it writes before its commit is
\* seen by nobody else (request.rows and request.res hold it), and is lost
\* with the transaction when the request raises or the process dies.  The
\* reconciler is a process of its own.  A call to the quotaholder succeeds
\* ("ok"), fails before it is carried out ("unreachable"), or is carried
\* out while its reply never arrives ("lost").

CycladesClient == "cyclades"
CycladesKey == <<"user1", "system", "vm">>
Replies == {"ok", "unreachable", "lost"}
Actions == {"BUILD", "DESTROY"}

\* get_commission_info for a Network or a floating IPAddress.
get_commission_info(action) ==
    IF action = "BUILD" THEN << <<CycladesKey, 1>> >>
    ELSE IF action = "DESTROY" THEN << <<CycladesKey, -1>> >>
    ELSE <<>>

\* callpoint.get_pending_commissions
get_pending_commissions(cms, clientkey) ==
    {s \in DOMAIN cms : cms[s].clientkey = clientkey}

Min(S) == CHOOSE x \in S : \A y \in S : x <= y

\* Mutant: a pending serial that the local table does not have is accepted.
quotas_resolve_pending_commissions_accept_absent(qh_pending, table) ==
    [accepted |-> {s \in qh_pending : s \notin DOMAIN table \/ table[s].accept},
     rejected |-> {s \in qh_pending : s \in DOMAIN table /\ ~table[s].accept}]

\* Mutant: a pending serial that the local table does not have is left
\* pending.
quotas_resolve_pending_commissions_ignore_absent(qh_pending, table) ==
    [accepted |-> {s \in qh_pending \cap DOMAIN table : table[s].accept},
     rejected |-> {s \in qh_pending \cap DOMAIN table : ~table[s].accept}]

\* Mutant: a pending serial that the local table has undecided is left out.
quotas_resolve_pending_commissions_skip_undecided(qh_pending, table) ==
    LET accepted == {s \in qh_pending \cap DOMAIN table :
                        ~table[s].pending /\ table[s].accept}
    IN  [accepted |-> accepted,
         rejected |-> {s \in qh_pending \ accepted :
                          s \notin DOMAIN table \/ ~table[s].pending}]

\* synnefo.quotas.resolve_pending_commissions: the decision of the
\* reconciler on the serials pending at the quotaholder, from the
\* QuotaHolderSerial table.
quotas_resolve_pending_commissions(qh_pending, table) ==
    IF qh_pending = {}
    THEN [accepted |-> {}, rejected |-> {}]
    ELSE LET min_     == Min(qh_pending)
             serials  == {s \in DOMAIN table : s >= min_ /\ ~table[s].pending}
             accepted == {s \in serials : table[s].accept} \cap qh_pending
         IN  [accepted |-> accepted, rejected |-> qh_pending \ accepted]

\* The two update() calls of _resolve_commissions on the rows of table.
update_serials(table, accepted, rejected) ==
    [s \in DOMAIN table |->
        IF s \in rejected
        THEN [pending |-> FALSE, accept |-> FALSE, resolved |-> TRUE]
        ELSE IF s \in accepted
        THEN [pending |-> FALSE, accept |-> TRUE, resolved |-> TRUE]
        ELSE table[s]]

\* _resolve_commissions: the call to the quotaholder and the rows of table
\* after it.  failed is what the quotaholder did not find or found in both
\* lists; it is logged.
resolve_commissions(hs, cms, log, table, accept, reject) ==
    LET r == resolve_pending_commissions(hs, cms, log, CycladesClient,
                                         SomeOrder(accept), SomeOrder(reject))
    IN  [holdings |-> r.holdings, commissions |-> r.commissions, log |-> r.log,
         accepted |-> r.accepted, rejected |-> r.rejected,
         failed |-> r.notFound \cup r.conflicting,
         table |-> update_serials(table, r.accepted, r.rejected)]

\* Mutant: a previous serial that is decided-accept is rejected.
resolve_resource_commission_reject_decided(serial, table, force) ==
    IF serial = NoSerial \/ table[serial].resolved THEN "return"
    ELSE IF table[serial].pending /\ ~force THEN "ResolveError"
    ELSE "reject"

\* Mutant: an undecided previous serial is never an error.
resolve_resource_commission_no_error(serial, table, force) ==
    IF serial = NoSerial \/ table[serial].resolved THEN "return"
    ELSE IF ~table[serial].pending /\ table[serial].accept THEN "accept"
    ELSE "reject"

\* resolve_resource_commission: what is done about the serial the resource
\* references.
resolve_resource_commission(serial, table, force) ==
    IF serial = NoSerial \/ table[serial].resolved THEN "return"
    ELSE IF table[serial].pending /\ ~force THEN "ResolveError"
    ELSE IF ~table[serial].pending /\ table[serial].accept THEN "accept"
    ELSE "reject"

\* handle_resource_commission: force = force or (action == "DESTROY")
handle_force(force, action) == force \/ action = "DESTROY"

\* synnefo.quotas.issue_commission: the call to the quotaholder for the
\* provisions of the action.
quotas_issue_commission(hs, cms, serial, action, force) ==
    LET provisions == get_commission_info(action)
    IN  issue_commission(hs, cms, serial, CycladesClient, provisions, force,
                         SomeOrder(DOMAIN merge_same_keys(provisions)))

\* The tables as the request's transaction sees them.
Overlay(table, rows) ==
    [s \in DOMAIN table \cup DOMAIN rows |->
        IF s \in DOMAIN rows THEN rows[s] ELSE table[s]]

\* Mutant: the serial is committed without being marked as decided.
decided_accept_unmarked == [pending |-> TRUE, accept |-> TRUE, resolved |-> FALSE]

\* The serial row issue_and_accept_commission saves before its commit:
\* serial.pending = False; serial.accept = True
decided_accept == [pending |-> FALSE, accept |-> TRUE, resolved |-> FALSE]

InitCyclades ==
    /\ holdings = [k \in {CycladesKey} |->
                      [limit |-> MaxOtherUsage + 1, usage_min |-> MaxOtherUsage,
                       usage_max |-> MaxOtherUsage]]
    /\ commissions = EmptyMap
    /\ nextSerial = 1
    /\ provisionLog = {}
    /\ forced = {}
    /\ issuers = NoIssuers
    /\ mapCheck = NoMapCheck
    /\ ServicesIdle

\* create_floating_ip / delete_floating_ip up to the call of
\* issue_and_accept_commission: the resource is created, or marked as
\* deleted, in the request's transaction.
ReqBegin(action) ==
    /\ request.pc = "idle"
    /\ nextSerial <= MaxWorkflowSerial
    /\ \/ action = "BUILD" /\ quotable.status = "none"
       \/ action = "DESTROY" /\ quotable.status = "active"
    /\ request' = [pc |-> "begun", action |-> action, rows |-> <<>>,
                   res |-> [status |-> IF action = "BUILD" THEN "active" ELSE "deleted",
                            serial |-> quotable.serial],
                   serial |-> NoSerial]
    /\ UNCHANGED <<notCycladesVars, quotaholderVars, serialsTable, quotable, reconciler, issuedFor>>

\* handle_resource_commission, first half: the previous serial of the
\* resource is resolved (accept_resource_serial / reject_resource_serial).
ReqResolvePrevious(reply) ==
    /\ request.pc = "begun"
    /\ LET force == handle_force(FALSE, request.action)
           view  == Overlay(serialsTable, request.rows)
           what  == resolve_resource_commission(request.res.serial, view, force)
           r     == resolve_commissions(holdings, commissions, provisionLog, view,
                       IF what = "accept" THEN {request.res.serial} ELSE {},
                       IF what = "reject" THEN {request.res.serial} ELSE {})
           done  == (r.accepted \cup r.rejected) \cap DOMAIN view
       IN  IF what = "return"
           THEN /\ reply = "ok"
                /\ request' = [request EXCEPT !.pc = "resolved"]
                /\ UNCHANGED <<holdings, commissions, provisionLog>>
           ELSE IF what = "ResolveError"
           THEN /\ reply = "ok"
                /\ request' = IdleRequest
                /\ UNCHANGED <<holdings, commissions, provisionLog>>
           ELSE /\ IF reply = "unreachable"
                   THEN UNCHANGED <<holdings, commissions, provisionLog>>
                   ELSE /\ holdings' = r.holdings
                        /\ commissions' = r.commissions
                        /\ provisionLog' = r.log
                /\ request' =
                       IF reply = "ok"
                       THEN [request EXCEPT
                                !.pc = "resolved",
                                !.rows = Restrict(r.table, DOMAIN request.rows \cup done),
                                !.res = [@ EXCEPT !.serial = NoSerial]]
                       ELSE IdleRequest
    /\ UNCHANGED <<notCycladesVars, nextSerial, forced, issuers, mapCheck, serialsTable, quotable, reconciler, issuedFor>>

\* handle_resource_commission, second half, and issue_and_accept_commission
\* up to serial.save(): the commission is issued, its serial row is created
\* and marked as one to accept, and the resource references it.
ReqIssue(reply) ==
    /\ request.pc = "resolved"
    /\ LET force  == handle_force(FALSE, request.action)
           r      == quotas_issue_commission(holdings, commissions, nextSerial,
                                             request.action, force)
           serial == nextSerial
       IN  IF reply = "unreachable" \/ r.status # "ok"
           THEN /\ reply # "lost"
                /\ request' = IdleRequest
                /\ UNCHANGED <<holdings, commissions, nextSerial, forced, issuers, mapCheck, issuedFor>>
           ELSE /\ holdings' = r.holdings
                /\ commissions' = r.commissions
                /\ nextSerial' = nextSerial + 1
                /\ forced' = IF force THEN forced \cup {CycladesKey} ELSE forced
                /\ UNCHANGED <<issuers, mapCheck>>
                /\ issuedFor' = [s \in DOMAIN issuedFor \cup {serial} |->
                                    IF s = serial THEN request.action ELSE issuedFor[s]]
                /\ request' =
                       IF reply = "ok"
                       THEN [request EXCEPT
                                !.pc = "issued",
                                !.rows = Overlay(@, [s \in {serial} |-> decided_accept]),
                                !.res = [@ EXCEPT !.serial = serial],
                                !.serial = serial]
                       ELSE IdleRequest
    /\ UNCHANGED <<notCycladesVars, provisionLog, serialsTable, quotable, reconciler>>

\* transaction.commit()
ReqCommit ==
    /\ request.pc = "issued"
    /\ serialsTable' = Overlay(serialsTable, request.rows)
    /\ quotable' = request.res
    /\ request' = [request EXCEPT !.pc = "committed", !.rows = <<>>]
    /\ UNCHANGED <<notCycladesVars, quotaholderVars, reconciler, issuedFor>>

\* accept_resource_serial(resource) inside try/except: a failure is logged.
ReqAccept(reply) ==
    /\ request.pc = "committed"
    /\ LET r == resolve_commissions(holdings, commissions, provisionLog,
                                    serialsTable, {request.serial}, {})
       IN  /\ IF reply = "unreachable"
              THEN UNCHANGED <<holdings, commissions, provisionLog>>
              ELSE /\ holdings' = r.holdings
                   /\ commissions' = r.commissions
                   /\ provisionLog' = r.log
           /\ IF reply = "ok"
              THEN /\ serialsTable' = r.table
                   /\ quotable' = [request.res EXCEPT !.serial = NoSerial]
              ELSE UNCHANGED <<serialsTable, quotable>>
    /\ request' = IdleRequest
    /\ UNCHANGED <<notCycladesVars, nextSerial, forced, issuers, mapCheck, reconciler, issuedFor>>

\* The process of the request dies: its open transaction is rolled back.
ReqCrash ==
    /\ request.pc # "idle"
    /\ request' = IdleRequest
    /\ UNCHANGED <<notCycladesVars, quotaholderVars, serialsTable, quotable, reconciler, issuedFor>>

\* The reconciler calls resolve_pending_commissions().
RecDecide ==
    /\ reconciler.pc = "idle"
    /\ LET qh_pending == get_pending_commissions(commissions, CycladesClient)
           d == quotas_resolve_pending_commissions(qh_pending, serialsTable)
       IN  /\ qh_pending # {}
           /\ reconciler' = [pc |-> "decided", accepted |-> d.accepted,
                             rejected |-> d.rejected, succeeded |-> FALSE]
    /\ UNCHANGED <<notCycladesVars, quotaholderVars, serialsTable, quotable, request, issuedFor>>

\* The reconciler calls reconcile_resolve_commissions(accept, reject).
RecResolve(reply) ==
    /\ reconciler.pc = "decided"
    /\ LET r == resolve_commissions(holdings, commissions, provisionLog, serialsTable,
                                    reconciler.accepted, reconciler.rejected)
           affected == r.accepted \cup r.rejected
       IN  /\ IF reply = "unreachable"
              THEN UNCHANGED <<holdings, commissions, provisionLog>>
              ELSE /\ holdings' = r.holdings
                   /\ commissions' = r.commissions
                   /\ provisionLog' = r.log
           /\ IF reply = "ok"
              THEN /\ serialsTable' = r.table
                   /\ quotable' = IF quotable.serial \in affected
                                  THEN [quotable EXCEPT !.serial = NoSerial]
                                  ELSE quotable
              ELSE UNCHANGED <<serialsTable, quotable>>
    /\ reconciler' = [IdleReconciler EXCEPT !.succeeded = (reply = "ok")]
    /\ UNCHANGED <<notCycladesVars, nextSerial, forced, issuers, mapCheck, request, issuedFor>>

SomeReqBegin == \E action \in Actions : ReqBegin(action)
SomeReqResolvePrevious == \E reply \in Replies : ReqResolvePrevious(reply)
SomeReqIssue == \E reply \in Replies : ReqIssue(reply)
SomeReqAccept == \E reply \in Replies : ReqAccept(reply)
SomeRecResolve == \E reply \in Replies : RecResolve(reply)

NextCyclades ==
    \/ SomeReqBegin
    \/ SomeReqResolvePrevious
    \/ SomeReqIssue
    \/ ReqCommit
    \/ SomeReqAccept
    \/ ReqCrash
    \/ RecDecide
    \/ SomeRecResolve

SpecCyclades == InitCyclades /\ [][NextCyclades]_vars

\* A step RecResolve("ok"), by what it does to the reconciler.
RecSucceeds ==
    /\ reconciler.pc = "decided"
    /\ reconciler' = [IdleReconciler EXCEPT !.succeeded = TRUE]

\* The reconciler runs again and again, and its calls to the quotaholder
\* succeed now and then.
FairCyclades ==
    /\ WF_vars(RecDecide)
    /\ SF_reconciler(RecSucceeds)

SpecCycladesFair == SpecCyclades /\ FairCyclades

\* ----------------------------------------------------- claims on the workflow

WorkflowSerials == 1..MaxWorkflowSerial
SerialRows == [pending : BOOLEAN, accept : BOOLEAN, resolved : BOOLEAN]
\* Every QuotaHolderSerial table over the serials of the model.
SerialTables == UNION {[S -> SerialRows] : S \in SUBSET WorkflowSerials}

\* C15: the decision of synnefo.quotas.resolve_pending_commissions, for every
\* set of serials pending at the quotaholder (the one of the current state
\* among them) and every QuotaHolderSerial table, splits the pending serials in two: accepted and rejected are
\* disjoint and together are the pending set; a pending serial that the
\* table has as accepted (pending=false, accept=true) is in accepted, one
\* that the table has as rejected (pending=false, accept=false) is in
\* rejected, and one that the table does not have is in rejected.
C15_DecisionPartitions ==
    \A qh_pending \in SUBSET (WorkflowSerials \cup DOMAIN commissions),
       table \in SerialTables \cup {serialsTable} :
        LET d == quotas_resolve_pending_commissions(qh_pending, table)
        IN  /\ d.accepted \cap d.rejected = {}
            /\ d.accepted \cup d.rejected = qh_pending
            /\ \A s \in qh_pending :
                /\ (s \in DOMAIN table /\ ~table[s].pending /\ table[s].accept)
                       => s \in d.accepted
                /\ (s \in DOMAIN table /\ ~table[s].pending /\ ~table[s].accept)
                       => s \in d.rejected
                /\ s \notin DOMAIN table => s \in d.rejected

\* The reconciler has decided on a serial the table has as accepted while
\* another serial of the table is no longer pending at the quotaholder.
C15_Witness ==
    /\ reconciler.pc = "decided"
    /\ \E s \in reconciler.accepted :
        /\ s \in get_pending_commissions(commissions, CycladesClient)
        /\ s \in DOMAIN serialsTable
        /\ ~serialsTable[s].pending /\ serialsTable[s].accept
    /\ \E s \in DOMAIN serialsTable : s \notin DOMAIN commissions

PendingAtQuotaholder == get_pending_commissions(commissions, CycladesClient)

\* A run of the reconciler that starts in the current state and whose calls
\* succeed: resolve_pending_commissions(), reconcile_resolve_commissions().
ReconcilerRun(hs, cms, log, table) ==
    LET d == quotas_resolve_pending_commissions(
                 get_pending_commissions(cms, CycladesClient), table)
    IN  resolve_commissions(hs, cms, log, table, d.accepted, d.rejected)

\* The same run with the serial s left out of its lists.
ReconcilerRunWithout(hs, cms, log, table, s) ==
    LET d == quotas_resolve_pending_commissions(
                 get_pending_commissions(cms, CycladesClient), table)
    IN  resolve_commissions(hs, cms, log, table, d.accepted \ {s}, d.rejected \ {s})

\* C13: a serial that is committed locally and still pending at the
\* quotaholder (the request died, or its accept call failed, after the
\* commit) is recorded as pending=false, accept=true; a run of the
\* reconciler from there accepts it and marks it resolved; the run changes
\* the holding by the commission's quantity once (an import raises
\* usage_min to what usage_max reserved, a release lowers usage_max), the
\* log has one accept row of the serial, and a second run changes no
\* holding.
C13_ReconcilerAcceptsCommitted ==
    \A s \in DOMAIN serialsTable \cap PendingAtQuotaholder :
        LET r       == ReconcilerRun(holdings, commissions, provisionLog, serialsTable)
            without == ReconcilerRunWithout(holdings, commissions, provisionLog,
                                            serialsTable, s)
            again   == ReconcilerRun(r.holdings, r.commissions, r.log, r.table)
            h       == r.holdings[CycladesKey]
            h0      == without.holdings[CycladesKey]
        IN  /\ ~serialsTable[s].pending /\ serialsTable[s].accept
            /\ ~serialsTable[s].resolved
            /\ s \in r.accepted
            /\ s \notin DOMAIN r.commissions
            /\ r.table[s] = [pending |-> FALSE, accept |-> TRUE, resolved |-> TRUE]
            /\ IF issuedFor[s] = "BUILD"
               THEN h = [h0 EXCEPT !.usage_min = @ + 1]
               ELSE h = [h0 EXCEPT !.usage_max = @ - 1]
            /\ {row \in r.log : row.serial = s}
                   = {[serial |-> s, key |-> CycladesKey, accept |-> TRUE]}
            /\ again.holdings = r.holdings
            /\ again.log = r.log

\* The request is gone after its commit, its serial is still pending at the
\* quotaholder, and the reconciler has decided to accept it.
C13_Witness ==
    /\ request.pc = "idle"
    /\ reconciler.pc = "decided"
    /\ \E s \in reconciler.accepted :
        /\ s \in PendingAtQuotaholder
        /\ s \in DOMAIN serialsTable
        /\ ~serialsTable[s].pending /\ serialsTable[s].accept
        /\ quotable.serial = s

\* C13: once a serial is committed locally (as pending=false, accept=true)
\* the quotaholder never rejects it, whatever becomes of the request after
\* the commit, and when nothing is in progress or pending any more the
\* holding counts the resource exactly once if it exists and not at all
\* if it does not.
C13_CommittedSerialAccepted ==
    /\ \A s \in DOMAIN serialsTable :
        [serial |-> s, key |-> CycladesKey, accept |-> FALSE] \notin provisionLog
    /\ (request.pc = "idle" /\ reconciler.pc = "idle" /\ PendingAtQuotaholder = {})
        => LET h == holdings[CycladesKey]
               n == IF quotable.status = "active" THEN 1 ELSE 0
           IN  h.usage_min = MaxOtherUsage + n /\ h.usage_max = MaxOtherUsage + n

\* handle_resource_commission when the quotaholder answers every call: the
\* previous serial of the resource is resolved, then the commission of the
\* action is issued with the next serial.
handle_resource_commission(hs, cms, log, table, previous, serial, action, force) ==
    LET f    == handle_force(force, action)
        what == resolve_resource_commission(previous, table, f)
        r    == resolve_commissions(hs, cms, log, table,
                    IF what = "accept" THEN {previous} ELSE {},
                    IF what = "reject" THEN {previous} ELSE {})
        i    == quotas_issue_commission(r.holdings, r.commissions, serial, action, f)
    IN  IF what = "ResolveError"
        THEN [status |-> "ResolveError", resolved |-> what, serial |-> NoSerial,
              holdings |-> hs, commissions |-> cms, log |-> log]
        ELSE [status |-> i.status, resolved |-> what, serial |-> i.serial,
              holdings |-> i.holdings, commissions |-> i.commissions, log |-> r.log]

\* The release commissions (issued for DESTROY) of the resource.
Releases == {s \in DOMAIN issuedFor : issuedFor[s] = "DESTROY"}
AcceptedAtQuotaholder ==
    {s \in DOMAIN issuedFor :
        [serial |-> s, key |-> CycladesKey, accept |-> TRUE] \in provisionLog}
RejectedAtQuotaholder ==
    {s \in DOMAIN issuedFor :
        [serial |-> s, key |-> CycladesKey, accept |-> FALSE] \in provisionLog}

\* What handle_resource_commission does about the previous serial, for every
\* serial the resource may reference, every row the QuotaHolderSerial table
\* may have for it, every action and force, on the quotaholder of the
\* current state.
HandleSettlesPrevious ==
    \A previous \in WorkflowSerials, row \in SerialRows :
        \A action \in Actions, force \in BOOLEAN :
            LET table == Overlay(serialsTable, [s \in {previous} |-> row])
                out == handle_resource_commission(holdings, commissions, provisionLog,
                           table, previous, nextSerial, action, force)
            IN  ~row.resolved =>
                    /\ (row.pending /\ action # "DESTROY" /\ ~force)
                        => /\ out.status = "ResolveError"
                           /\ out.commissions = commissions
                           /\ out.holdings = holdings
                    /\ (~row.pending /\ row.accept) => out.resolved = "accept"
                    /\ (~row.pending /\ ~row.accept) => out.resolved = "reject"
                    /\ (row.pending /\ (action = "DESTROY" \/ force))
                        => out.resolved = "reject"
                    /\ (out.status = "ok" /\ previous \in PendingAtQuotaholder)
                        => /\ previous \notin DOMAIN out.commissions
                           /\ [serial |-> previous, key |-> CycladesKey,
                               accept |-> out.resolved = "accept"] \in out.log

PithosClient == "pithos"
PithosKey == <<"user1", "system", "disk">>
\* The size changes a backend method reports.
SizeChanges == {1, -1}

InitPithos ==
    /\ holdings = [k \in {PithosKey} |->
                      [limit |-> MaxOtherUsage + 1, usage_min |-> MaxOtherUsage,
                       usage_max |-> MaxOtherUsage]]
    /\ commissions = EmptyMap
    /\ nextSerial = 1
    /\ provisionLog = {}
    /\ forced = {}
    /\ issuers = NoIssuers
    /\ mapCheck = NoMapCheck
    /\ ServicesIdle

\* Mutant: the serials of a failed transaction are accepted.
post_exec_serials_accept_always(success_status, serials) ==
    [accept |-> serials, reject |-> {}]

\* post_exec: the lists of its resolve_commissions call.
post_exec_serials(success_status, serials) ==
    IF success_status
    THEN [accept |-> serials, reject |-> {}]
    ELSE [accept |-> {}, reject |-> serials]

\* astakosclient.resolve_commissions as Pithos calls it.
pithos_resolve_commissions(hs, cms, log, accept, reject) ==
    LET r == resolve_pending_commissions(hs, cms, log, PithosClient,
                                         SomeOrder(accept), SomeOrder(reject))
    IN  [holdings |-> r.holdings, commissions |-> r.commissions, log |-> r.log,
         accepted |-> r.accepted, rejected |-> r.rejected,
         failed |-> r.notFound \cup r.conflicting]

\* _report_size_change: issue_one_commission for the size change.
report_size_change(hs, cms, serial, size) ==
    issue_commission(hs, cms, serial, PithosClient, << <<PithosKey, size>> >>,
                     FALSE, <<PithosKey>>)

\* pre_exec
PreExec ==
    /\ txn.pc = "idle"
    /\ nextSerial <= MaxWorkflowSerial
    /\ txn' = [pc |-> "open", serials |-> {}, issued |-> {}, writes |-> 0]
    /\ UNCHANGED <<quotaholderVars, notPithosVars, pithosSerials, stored,
                   pithosReconciler, failedSerials>>

\* A backend method that changes a size: it writes to the database, then
\* _report_size_change issues a commission and appends its serial, or
\* raises QuotaError.
Mutate(size, reply) ==
    /\ txn.pc = "open"
    /\ nextSerial <= MaxWorkflowSerial
    /\ LET r == report_size_change(holdings, commissions, nextSerial, size)
       IN  IF reply = "unreachable" \/ r.status # "ok"
           THEN /\ reply # "lost"
                /\ txn' = [txn EXCEPT !.pc = "failed", !.writes = @ + 1]
                /\ UNCHANGED <<holdings, commissions, nextSerial>>
           ELSE /\ holdings' = r.holdings
                /\ commissions' = r.commissions
                /\ nextSerial' = nextSerial + 1
                /\ txn' = IF reply = "ok"
                          THEN [txn EXCEPT !.serials = @ \cup {nextSerial},
                                           !.issued = @ \cup {nextSerial},
                                           !.writes = @ + 1]
                          ELSE [txn EXCEPT !.pc = "failed",
                                           !.issued = @ \cup {nextSerial},
                                           !.writes = @ + 1]
    /\ UNCHANGED <<provisionLog, forced, issuers, mapCheck, notPithosVars, pithosSerials, stored,
                   pithosReconciler, failedSerials>>

\* backend_method / handle_pithos_backend: the function raises.
FuncRaise ==
    /\ txn.pc = "open"
    /\ txn' = [txn EXCEPT !.pc = "failed"]
    /\ UNCHANGED <<quotaholderVars, notPithosVars, pithosSerials, stored,
                   pithosReconciler, failedSerials>>

\* backend_method / handle_pithos_backend: the function returns.
FuncReturn ==
    /\ txn.pc = "open"
    /\ txn' = [txn EXCEPT !.pc = "succeeded"]
    /\ UNCHANGED <<quotaholderVars, notPithosVars, pithosSerials, stored,
                   pithosReconciler, failedSerials>>

\* post_exec(True) up to its first commit: the serials are inserted in
\* commission_serials and committed with the mutations of the transaction.
PostExecRegister ==
    /\ txn.pc = "succeeded"
    /\ pithosSerials' = pithosSerials \cup txn.serials
    /\ stored' = stored + txn.writes
    /\ txn' = IF txn.serials # {}
              THEN [txn EXCEPT !.pc = "registered", !.writes = 0]
              ELSE IdleTxn
    /\ UNCHANGED <<quotaholderVars, notPithosVars, pithosReconciler, failedSerials>>

\* post_exec(True) after its first commit: the serials are accepted and the
\* accepted ones are deleted from commission_serials.
PostExecAccept(reply) ==
    /\ txn.pc = "registered"
    /\ LET l == post_exec_serials(TRUE, txn.serials)
           r == pithos_resolve_commissions(holdings, commissions, provisionLog,
                                           l.accept, l.reject)
       IN  /\ IF reply = "unreachable"
              THEN UNCHANGED <<holdings, commissions, provisionLog>>
              ELSE /\ holdings' = r.holdings
                   /\ commissions' = r.commissions
                   /\ provisionLog' = r.log
           /\ pithosSerials' = IF reply = "ok" THEN pithosSerials \ r.accepted
                               ELSE pithosSerials
    /\ txn' = IdleTxn
    /\ UNCHANGED <<nextSerial, forced, issuers, mapCheck, notPithosVars, stored, pithosReconciler,
                   failedSerials>>

\* post_exec(False): the serials are rejected and the transaction is rolled
\* back.
PostExecReject(reply) ==
    /\ txn.pc = "failed"
    /\ LET l == post_exec_serials(FALSE, txn.serials)
           r == pithos_resolve_commissions(holdings, commissions, provisionLog,
                                           l.accept, l.reject)
       IN  IF txn.serials = {}
           THEN /\ reply = "ok"
                /\ UNCHANGED <<holdings, commissions, provisionLog>>
           ELSE IF reply = "unreachable"
           THEN UNCHANGED <<holdings, commissions, provisionLog>>
           ELSE /\ holdings' = r.holdings
                /\ commissions' = r.commissions
                /\ provisionLog' = r.log
    /\ failedSerials' = failedSerials \cup txn.issued
    /\ txn' = IdleTxn
    /\ UNCHANGED <<nextSerial, forced, issuers, mapCheck, notPithosVars, pithosSerials, stored,
                   pithosReconciler>>

\* The process of the transaction dies; what it has not committed is lost.
TxnCrash ==
    /\ txn.pc # "idle"
    /\ txn' = IdleTxn
    /\ UNCHANGED <<quotaholderVars, notPithosVars, pithosSerials, stored,
                   pithosReconciler, failedSerials>>

\* The reconciler of Pithos: a serial pending at the quotaholder is accepted
\* when commission_serials has it and rejected when it has not.
pithos_reconcile(qh_pending, serials) ==
    [accepted |-> qh_pending \cap serials, rejected |-> qh_pending \ serials]

PithosRecDecide ==
    /\ pithosReconciler.pc = "idle"
    /\ LET qh_pending == get_pending_commissions(commissions, PithosClient)
           d == pithos_reconcile(qh_pending, pithosSerials)
       IN  /\ qh_pending # {}
           /\ pithosReconciler' = [pc |-> "decided", accepted |-> d.accepted,
                                   rejected |-> d.rejected, succeeded |-> FALSE]
    /\ UNCHANGED <<quotaholderVars, notPithosVars, pithosSerials, stored, txn,
                   failedSerials>>

PithosRecResolve(reply) ==
    /\ pithosReconciler.pc = "decided"
    /\ LET r == pithos_resolve_commissions(holdings, commissions, provisionLog,
                    pithosReconciler.accepted, pithosReconciler.rejected)
       IN  IF reply = "unreachable"
           THEN UNCHANGED <<holdings, commissions, provisionLog>>
           ELSE /\ holdings' = r.holdings
                /\ commissions' = r.commissions
                /\ provisionLog' = r.log
    /\ pithosReconciler' = [IdleReconciler EXCEPT !.succeeded = (reply = "ok")]
    /\ UNCHANGED <<nextSerial, forced, issuers, mapCheck, notPithosVars, pithosSerials, stored, txn,
                   failedSerials>>

SomeMutate == \E size \in SizeChanges, reply \in Replies : Mutate(size, reply)
SomePostExecAccept == \E reply \in Replies : PostExecAccept(reply)
SomePostExecReject == \E reply \in Replies : PostExecReject(reply)
SomePithosRecResolve == \E reply \in Replies : PithosRecResolve(reply)

NextPithos ==
    \/ PreExec
    \/ SomeMutate
    \/ FuncRaise
    \/ FuncReturn
    \/ PostExecRegister
    \/ SomePostExecAccept
    \/ SomePostExecReject
    \/ TxnCrash
    \/ PithosRecDecide
    \/ SomePithosRecResolve

SpecPithos == InitPithos /\ [][NextPithos]_vars

\* ------------------------------------------------------ claims on post_exec

PithosAccepted ==
    {row.serial : row \in {x \in provisionLog : x.key = PithosKey /\ x.accept}}
PithosRejected ==
    {row.serial : row \in {x \in provisionLog : x.key = PithosKey /\ ~x.accept}}

\* post_exec(False) in the current state, its call answered.
PostExecFailure ==
    LET l == post_exec_serials(FALSE, txn.serials)
    IN  pithos_resolve_commissions(holdings, commissions, provisionLog, l.accept, l.reject)

InitWorkflows == InitCyclades \/ InitPithos

NextWorkflows == NextCyclades \/ NextPithos

SpecWorkflows == InitWorkflows /\ [][NextWorkflows]_vars

\* A step PithosRecResolve("ok"), by what it does to the reconciler.
PithosRecSucceeds ==
    /\ pithosReconciler.pc = "decided"
    /\ pithosReconciler' = [IdleReconciler EXCEPT !.succeeded = TRUE]

\* The reconcilers run again and again, and their calls to the quotaholder
\* succeed now and then.
FairWorkflows ==
    /\ FairCyclades
    /\ WF_vars(PithosRecDecide)
    /\ SF_pithosReconciler(PithosRecSucceeds)

SpecWorkflowsFair == SpecWorkflows /\ FairWorkflows

\* C12: a step that makes the quotaholder accept a commission finds its
\* serial committed in the local database as one to accept: in Cyclades
\* the QuotaHolderSerial row with pending=false, accept=true, in Pithos the
\* serial in commission_serials.
C12_AcceptAfterCommit ==
    [][\A row \in provisionLog' \ provisionLog :
          row.accept =>
            IF row.key = CycladesKey
            THEN /\ row.serial \in DOMAIN serialsTable
                 /\ ~serialsTable[row.serial].pending
                 /\ serialsTable[row.serial].accept
            ELSE row.serial \in pithosSerials]_vars

\* issue_and_accept_commission has accepted its commission: the serial is
\* accepted at the quotaholder and resolved locally, and the resource is
\* there.
C12_Witness ==
    /\ quotable.status = "active"
    /\ \E s \in AcceptedAtQuotaholder :
        /\ s \in DOMAIN serialsTable
        /\ serialsTable[s].resolved /\ serialsTable[s].accept

\* C14: every commission pending at the quotaholder is resolved in the end,
\* whatever became of the request that issued it.
C14_EventuallyResolved ==
    \A s \in WorkflowSerials :
        (s \in DOMAIN commissions) ~> (s \notin DOMAIN commissions)

\* A commission whose request never committed its serial has been rejected.
C14_Witness ==
    \E s \in RejectedAtQuotaholder : s \notin DOMAIN serialsTable

\* ============================== pithos.backends.modular: versions and locks
\* The versions of the objects and the locks on the container nodes.  A
\* call of a backend runs in one database transaction: it sees the rows
\* committed so far and its own changes, its changes are kept apart until
\* the commit, and a row it has updated or deleted cannot be updated or
\* deleted by the other backend before the transaction ends.  An exception
\* anywhere in the call rolls the transaction back.

\* src_container_path < dest_container_path: the order of Python strings.
RECURSIVE PathLess(_, _)
PathLess(p, q) ==
    IF q = <<>> THEN FALSE
    ELSE IF p = <<>> THEN TRUE
    ELSE IF Head(p) # Head(q) THEN Head(p) < Head(q)
    ELSE PathLess(Tail(p), Tail(q))

\* The steps of a call: a lookup of a container node, or a change of the
\* object of a container (from: the container of the source object; must:
\* the source object has to exist; until: the time to purge up to).
LookupStep(c) ==
    [do |-> "lookup", container |-> c, from |-> c, must |-> FALSE, until |-> 0]
ObjectStep(do, c, from, must, until) ==
    [do |-> do, container |-> c, from |-> from, must |-> must, until |-> until]

\* Mutant: the source container is looked up first.
copy_object_lookups_source_first(src, dest) ==
    <<LookupStep(src), LookupStep(dest)>>

\* _copy_object: "Lock container paths in alphabetical order".
copy_object_lookups(src, dest) ==
    IF PathLess(ContainerPath(src), ContainerPath(dest))
    THEN <<LookupStep(src), LookupStep(dest)>>
    ELSE <<LookupStep(dest), LookupStep(src)>>

ObjectOperations == {"put", "meta", "delete", "purge", "copy", "move"}
CopyOperations == {"copy", "move"}

\* What a call does, in the order of the code: the container lookups, then
\* the changes of versions.  Lookups of a container the call has looked up
\* before are left out.
Program(op, src, dest, until) ==
    CASE op = "put" ->
           <<LookupStep(dest), ObjectStep("put", dest, dest, FALSE, 0)>>
      [] op = "meta" ->
           <<LookupStep(dest), ObjectStep("put", dest, dest, FALSE, 0)>>
      [] op = "delete" ->
           <<LookupStep(dest), ObjectStep("delete", dest, dest, TRUE, 0)>>
      [] op = "purge" ->
           <<LookupStep(dest), ObjectStep("purge", dest, dest, FALSE, until)>>
      [] op = "copy" ->
           copy_object_lookups(src, dest)
             \o <<ObjectStep("put", dest, src, TRUE, 0)>>
      [] op = "move" ->
           copy_object_lookups(src, dest)
             \o <<ObjectStep("put", dest, src, TRUE, 0)>>
             \o (IF src # dest
                 THEN <<ObjectStep("delete", src, src, TRUE, 0)>>
                 ELSE <<>>)

\* ---- the node layer: the rows a transaction sees and what it does to them

\* The versions table as the transaction of b sees it.
View(vs, b) ==
    {IF v.serial \in b.hist THEN [v EXCEPT !.cluster = "HISTORY"] ELSE v :
        v \in {x \in vs : x.serial \notin b.del}}
      \cup b.ins

Latest(S) == CHOOSE x \in S : \A y \in S : y <= x

InCluster(view, node, cluster) ==
    {v.serial : v \in {x \in view : x.node = node /\ x.cluster = cluster}}

\* version_lookup(node, inf, cluster): the serial of the latest version of
\* the node in the cluster, or None.
version_lookup(view, node, cluster) ==
    IF InCluster(view, node, cluster) = {}
    THEN NoVersion
    ELSE Latest(InCluster(view, node, cluster))

\* The transaction moves the versions of S to HISTORY.
recluster(vs, b, S) ==
    [b EXCEPT !.ins = {IF v.serial \in S THEN [v EXCEPT !.cluster = "HISTORY"]
                       ELSE v : v \in b.ins},
              !.hist = @ \cup {v.serial : v \in {x \in vs : x.serial \in S
                                                  /\ x.serial \notin b.del}}]

\* version_recluster(serial, CLUSTER_HISTORY)
version_recluster(vs, b, serial) == recluster(vs, b, {serial})

\* version_create: inserts the version and marks any prior NORMAL version of
\* the node as HISTORY.
version_create(vs, b, node, pre, cluster, serial) ==
    LET marked == recluster(vs, b, InCluster(View(vs, b), node, "NORMAL"))
    IN  [marked EXCEPT !.ins = @ \cup {[serial |-> serial, node |-> node,
                                        cluster |-> cluster, pre |-> pre]}]

\* The version is there for the transaction.
Present(vs, b, serial) == \E v \in View(vs, b) : v.serial = serial

\* version_remove(serial)
version_remove(vs, b, serial) ==
    [b EXCEPT !.ins = {v \in b.ins : v.serial # serial},
              !.del = @ \cup {v.serial : v \in {x \in vs : x.serial = serial}}]

\* node_purge(node, until, cluster): removes the versions of the node in
\* the cluster that are not later than until.
node_purge(vs, b, node, until, cluster) ==
    LET S == {x \in InCluster(View(vs, b), node, cluster) : x <= until}
    IN  [b EXCEPT !.ins = {v \in b.ins : v.serial \notin S},
                  !.del = @ \cup {v.serial : v \in {x \in vs : x.serial \in S}}]

\* ---- the backend

\* _put_version_duplicate, its lookups: the latest NORMAL version of the
\* source node and the latest NORMAL version of the node.
put_version_duplicate_lookup(view, node, src_node) ==
    [src |-> version_lookup(view, src_node, "NORMAL"),
     pre |-> version_lookup(view, node, "NORMAL")]

\* _put_version_duplicate after its lookups: the version found for the node
\* is reclustered to HISTORY and the new version is created in the cluster.
put_version_duplicate(vs, b, node, found, cluster, serial) ==
    LET reclustered == IF found.pre # NoVersion
                       THEN version_recluster(vs, b, found.pre)
                       ELSE b
    IN  version_create(vs, reclustered, node, found.pre, cluster, serial)

\* _apply_versioning: the version is removed unless the policy is 'auto'.
apply_versioning(vs, b, policy, version_id) ==
    IF version_id = NoVersion THEN b
    ELSE IF policy # "auto" THEN version_remove(vs, b, version_id)
    ELSE b

\* _apply_versioning fails: the version to remove is not there.
apply_versioning_raises(vs, b, policy, version_id) ==
    /\ version_id # NoVersion
    /\ policy # "auto"
    /\ ~Present(vs, b, version_id)

\* _update_object_hash, the versions: a new NORMAL version.
update_object_hash(vs, b, policy, node, found, serial) ==
    apply_versioning(vs, put_version_duplicate(vs, b, node, found, "NORMAL", serial),
                     policy, found.pre)

\* _delete_object without until: a new DELETED version.
delete_object(vs, b, policy, node, found, serial) ==
    apply_versioning(vs, put_version_duplicate(vs, b, node, found, "DELETED", serial),
                     policy, found.pre)

\* _delete_object with until: the versions up to until are purged from the
\* three clusters.
purge_object(vs, b, node, until) ==
    node_purge(vs,
               node_purge(vs, node_purge(vs, b, node, until, "NORMAL"),
                          node, until, "HISTORY"),
               node, until, "DELETED")

\* The rows of the table the transaction has updated or deleted.
Touched(b) == b.hist \cup b.del

\* The changes b2 of backend t have to wait: they update or delete a row
\* that the open transaction of the other backend has updated or deleted.
Blocked(t, b2) ==
    \E u \in Backends \ {t} :
        (Touched(b2) \ Touched(backend[t])) \cap Touched(backend[u]) # {}

\* The container nodes whose rows the transaction of t holds for update.
Held(t) == {p \in ContainerPaths : containerLocks[p] = t}

\* The end of a transaction, commit or rollback: its locks are released.
Release(t) ==
    /\ containerLocks' = [p \in ContainerPaths |->
                             IF containerLocks[p] = t THEN NoBackend
                             ELSE containerLocks[p]]
    /\ backend' = [backend EXCEPT ![t] = IdleBackend]

\* Every object has been uploaded once; the containers have one versioning
\* policy.
InitVersions ==
    /\ holdings = EmptyMap
    /\ commissions = EmptyMap
    /\ nextSerial = 1
    /\ provisionLog = {}
    /\ forced = {}
    /\ issuers = NoIssuers
    /\ mapCheck = NoMapCheck
    /\ CycladesIdle
    /\ PithosIdle
    /\ StoreIdle
    /\ versions = {[serial |-> 1, node |-> FirstContainer, cluster |-> "NORMAL",
                    pre |-> NoVersion],
                   [serial |-> 2, node |-> SecondContainer, cluster |-> "NORMAL",
                    pre |-> NoVersion]}
    /\ nextVersion = 3
    /\ containerLocks = [p \in ContainerPaths |-> NoBackend]
    /\ backend = [t \in Backends |-> IdleBackend]
    /\ versioning \in {"auto", "none"}

\* pre_exec(lock_container_path) and the entry of a backend method.
\* backend_method and handle_pithos_backend call pre_exec(), which leaves
\* lock_container_path False; a caller that manages the transaction itself
\* may pass True.
BackendBegin(t, op, src, dest, until, lock) ==
    /\ backend[t].pc = "idle"
    /\ nextVersion <= MaxVersion
    /\ op \in CopyOperations <=> src # dest
    /\ until = IF op = "purge" THEN nextVersion - 1 ELSE 0
    /\ backend' = [backend EXCEPT ![t] =
                      [IdleBackend EXCEPT !.pc = "run", !.lock = lock,
                                          !.todo = Program(op, src, dest, until)]]
    /\ UNCHANGED <<notVersionVars, versions, nextVersion, containerLocks, versioning>>

\* _lookup_container: node_lookup(path, for_update), for_update being
\* self.lock_container_path.  With for_update the call waits while the other
\* transaction holds the row.
LookupContainer(t) ==
    /\ backend[t].pc = "run"
    /\ backend[t].todo # <<>>
    /\ Head(backend[t].todo).do = "lookup"
    /\ LET p == ContainerPath(Head(backend[t].todo).container)
       IN  IF backend[t].lock
           THEN /\ containerLocks[p] \in {NoBackend, t}
                /\ containerLocks' = [containerLocks EXCEPT ![p] = t]
           ELSE UNCHANGED containerLocks
    /\ backend' = [backend EXCEPT ![t].todo = Tail(@)]
    /\ UNCHANGED <<notVersionVars, versions, nextVersion, versioning>>

\* The lookups of the next change: the latest NORMAL versions of the source
\* node and of the node.  ItemNotExists when the source has none.
LookupVersions(t) ==
    /\ backend[t].pc = "run"
    /\ backend[t].todo # <<>>
    /\ Head(backend[t].todo).do # "lookup"
    /\ LET step == Head(backend[t].todo)
           found == put_version_duplicate_lookup(View(versions, backend[t]),
                                                 step.container, step.from)
       IN  IF step.must /\ found.src = NoVersion
           THEN Release(t)
           ELSE /\ backend' = [backend EXCEPT ![t].pc = "write", ![t].found = found]
                /\ UNCHANGED containerLocks
    /\ UNCHANGED <<notVersionVars, versions, nextVersion, versioning>>

\* The next change as the transaction has it after the step.
Changed(t) ==
    LET b == backend[t]
        step == Head(b.todo)
    IN  CASE step.do = "put" ->
               update_object_hash(versions, b, versioning, step.container,
                                  b.found, nextVersion)
          [] step.do = "delete" ->
               delete_object(versions, b, versioning, step.container,
                             b.found, nextVersion)
          [] step.do = "purge" ->
               purge_object(versions, b, step.container, step.until)

\* The next change: the version found is reclustered, the new version is
\* created, the policy is applied; or the versions are purged.
ChangeVersions(t) ==
    /\ backend[t].pc = "write"
    /\ LET step == Head(backend[t].todo)
       IN  /\ step.do # "purge" => nextVersion <= MaxVersion
           /\ ~Blocked(t, Changed(t))
           /\ IF step.do # "purge"
                 /\ apply_versioning_raises(versions, backend[t], versioning,
                                            backend[t].found.pre)
              THEN /\ Release(t)
                   /\ UNCHANGED nextVersion
              ELSE /\ backend' = [backend EXCEPT ![t] =
                                     [Changed(t) EXCEPT !.pc = "run",
                                                        !.todo = Tail(@),
                                                        !.found = NoFound]]
                   /\ nextVersion' = IF step.do = "purge" THEN nextVersion
                                     ELSE nextVersion + 1
                   /\ UNCHANGED containerLocks
    /\ UNCHANGED <<notVersionVars, versions, versioning>>

\* post_exec(True): the transaction is committed.
BackendCommit(t) ==
    /\ backend[t].pc = "run"
    /\ backend[t].todo = <<>>
    /\ versions' = View(versions, backend[t])
    /\ Release(t)
    /\ UNCHANGED <<notVersionVars, nextVersion, versioning>>

\* An exception in the call, or the end of its process: post_exec(False),
\* the transaction is rolled back.
BackendAbort(t) ==
    /\ backend[t].pc # "idle"
    /\ Release(t)
    /\ UNCHANGED <<notVersionVars, versions, nextVersion, versioning>>

\* A call on the object of the first container.
SomeObjectBegin ==
    \E t \in Backends, op \in ObjectOperations \ CopyOperations,
       until \in 0 .. MaxVersion, lock \in BOOLEAN :
        BackendBegin(t, op, FirstContainer, FirstContainer, until, lock)
\* A copy or a move from one container to the other.
SomeCopyBegin ==
    \E t \in Backends, op \in CopyOperations, src \in Containers,
       dest \in Containers, lock \in BOOLEAN :
        BackendBegin(t, op, src, dest, 0, lock)
SomeLookupContainer == \E t \in Backends : LookupContainer(t)
SomeLookupVersions == \E t \in Backends : LookupVersions(t)
SomeChangeVersions == \E t \in Backends : ChangeVersions(t)
SomeBackendCommit == \E t \in Backends : BackendCommit(t)
SomeBackendAbort == \E t \in Backends : BackendAbort(t)

\* Two backends that write, delete and purge one object.
NextVersions ==
    \/ SomeObjectBegin
    \/ SomeLookupContainer
    \/ SomeLookupVersions
    \/ SomeChangeVersions
    \/ SomeBackendCommit
    \/ SomeBackendAbort

SpecVersions == InitVersions /\ [][NextVersions]_vars

\* Two backends that copy and move objects between two containers.
NextCopies ==
    \/ SomeCopyBegin
    \/ SomeLookupContainer
    \/ SomeLookupVersions
    \/ SomeChangeVersions
    \/ SomeBackendCommit
    \/ SomeBackendAbort

SpecCopies == InitVersions /\ [][NextCopies]_vars

\* ------------------------------------------------- claims on the versions

NormalVersions(vs, node) == InCluster(vs, node, "NORMAL")

\* C18: in the committed table every node has at most one version in the
\* NORMAL cluster, whatever calls (create, overwrite, metadata update,
\* delete, purge) have been made on it.
C18_AtMostOneNormal ==
    \A c \in Containers : Cardinality(NormalVersions(versions, c)) <= 1

\* Two versions of one node that were created over the same version.
CommonPredecessor(vs) ==
    \E v, w \in vs :
        /\ v.serial # w.serial
        /\ v.node = w.node
        /\ v.pre # NoVersion
        /\ v.pre = w.pre

Quiescent == \A t \in Backends : backend[t].pc = "idle"

\* C19: writers of one object are serialized: no two committed versions of
\* a node supersede the same predecessor, and when no call is in progress
\* the node has at most one NORMAL version.
C19_WritersSerialized ==
    /\ ~CommonPredecessor(versions)
    /\ Quiescent =>
         \A c \in Containers : Cardinality(NormalVersions(versions, c)) <= 1

\* ---- callers that pass lock_container_path=True

SomeLockedBegin ==
    \E t \in Backends, op \in ObjectOperations \ CopyOperations,
       until \in 0 .. MaxVersion :
        BackendBegin(t, op, FirstContainer, FirstContainer, until, TRUE)

NextLockedVersions ==
    \/ SomeLockedBegin
    \/ SomeLookupContainer
    \/ SomeLookupVersions
    \/ SomeChangeVersions
    \/ SomeBackendCommit
    \/ SomeBackendAbort

SpecLockedVersions == InitVersions /\ [][NextLockedVersions]_vars

\* ------------------------------------------- claims on the container locks

\* The backend waits for the row of a container node that the transaction
\* of the other backend holds.
Waiting(t) ==
    /\ backend[t].pc = "run"
    /\ backend[t].todo # <<>>
    /\ Head(backend[t].todo).do = "lookup"
    /\ backend[t].lock
    /\ containerLocks[ContainerPath(Head(backend[t].todo).container)]
         \notin {NoBackend, t}

\* The container paths the call of t has still to look up.
ToLookUp(t) ==
    {ContainerPath(backend[t].todo[i].container) :
        i \in {j \in DOMAIN backend[t].todo : backend[t].todo[j].do = "lookup"}}

\* C20: the backends never all wait for one another's container locks, and
\* a call that holds the lock of one container looks up only containers
\* whose path is greater.
C20_NoContainerDeadlock ==
    /\ ~(\A t \in Backends : Waiting(t))
    /\ \A t \in Backends : \A q \in Held(t) : \A p \in ToLookUp(t) :
           PathLess(q, p)

\* The change of the object of container dest from the object of src is
\* among the steps the call of t has still to do.
Copies(t, src, dest) ==
    \E i \in DOMAIN backend[t].todo :
        /\ backend[t].todo[i].do = "put"
        /\ backend[t].todo[i].container = dest
        /\ backend[t].todo[i].from = src

\* Two calls in opposite directions, both locking: one holds the locks of
\* both containers, the other waits for the first lock it needs.
C20_Witness ==
    \E t, u \in Backends :
        /\ Copies(t, FirstContainer, SecondContainer)
        /\ Copies(u, SecondContainer, FirstContainer)
        /\ Held(t) = ContainerPaths
        /\ Waiting(u)
        /\ ToLookUp(u) = ContainerPaths
\* ============================ pithos.backends.modular: sizes, uuids, events
\* One backend instance and its top-level calls, one after the other.  A
\* call is one step: pre_exec, the function, post_exec.  The objects are
\* those of the versions above, one in each container; the user is the
\* owner of the account, the containers are of one project and the
\* quotaholder is the external one.

Sizes == 1..MaxSize
SinkReplies == {"ok", "fails"}

InitStore ==
    /\ holdings = [k \in {PithosKey} |->
                      [limit |-> MaxSize, usage_min |-> 0, usage_max |-> 0]]
    /\ commissions = EmptyMap
    /\ nextSerial = 1
    /\ provisionLog = {}
    /\ forced = {}
    /\ issuers = NoIssuers
    /\ mapCheck = NoMapCheck
    /\ CycladesIdle
    /\ PithosIdle
    /\ versions = {}
    /\ nextVersion = 1
    /\ containerLocks = [p \in ContainerPaths |-> NoBackend]
    /\ backend = [t \in Backends |-> IdleBackend]
    /\ versioning \in {"auto", "none"}
    /\ props = <<>>
    /\ nodes = {}
    /\ containers = Containers
    /\ AccessIdle
    /\ freeVersioning \in BOOLEAN
    /\ containerQuota = [c \in Containers |->
                             IF c = FirstContainer THEN 0 ELSE MaxSize - 1]
    /\ messages = {}
    /\ in_transaction = FALSE
    /\ call = NoCall
    /\ PolicyIdle

\* The tables as the transaction of a call has them.
Tables == [versions |-> versions, props |-> props, nodes |-> nodes,
           containers |-> containers, next |-> nextVersion]

RECURSIVE SizeSum(_, _)
SizeSum(ps, S) ==
    IF S = {} THEN 0
    ELSE LET s == CHOOSE x \in S : TRUE
         IN  ps[s].size + SizeSum(ps, S \ {s})

\* The columns of the rows that are left, and those of a new row.
WithProps(ps, vs, serial, size, uuid) ==
    [s \in {v.serial : v \in vs} |->
        IF s = serial THEN [size |-> size, uuid |-> uuid] ELSE ps[s]]

\* Mutant: nothing is returned for a version that is removed.
apply_versioning_size_kept_only(ps, policy, free_versioning, version_id) ==
    IF version_id = NoVersion THEN 0
    ELSE IF policy # "auto" THEN 0
    ELSE IF free_versioning THEN ps[version_id].size
    ELSE 0

\* Mutant: free_versioning is not looked at.
apply_versioning_size_not_free(ps, policy, free_versioning, version_id) ==
    IF version_id = NoVersion THEN 0
    ELSE IF policy # "auto" THEN ps[version_id].size
    ELSE 0

\* _apply_versioning, what it returns: "size of object removed".
apply_versioning_size(ps, policy, free_versioning, version_id) ==
    IF version_id = NoVersion THEN 0
    ELSE IF policy # "auto" THEN ps[version_id].size
    ELSE IF free_versioning THEN ps[version_id].size
    ELSE 0

\* Mutant: every new version gets a uuid of its own.
put_version_duplicate_uuid_fresh(ps, src_version_id, is_copy, serial) ==
    serial

\* _put_version_duplicate, the uuid of the new version: a generated one,
\* told apart by the serial of the version it is generated for, or the one
\* of the source version.
put_version_duplicate_uuid(ps, src_version_id, is_copy, serial) ==
    IF is_copy \/ src_version_id = NoVersion
    THEN serial
    ELSE ps[src_version_id].uuid

\* _put_version_duplicate, size=None: the size of the source version.
put_version_duplicate_size(ps, src_version_id) ==
    IF src_version_id = NoVersion THEN 0 ELSE ps[src_version_id].size

\* _get_statistics(container_node)[1]: the bytes of the NORMAL versions of
\* the container, which holds one object.
container_usage(vs, ps, node) ==
    SizeSum(ps, InCluster(vs, node, "NORMAL"))

\* What the function of a call has done when it returns or raises: the
\* exception, the tables, the size_delta it has computed, the size it
\* reports with _report_size_change (0: none), whether it has reported a
\* change of an object, and the versions it has looked up and created.
Raised(t, e) ==
    [raises |-> e, versions |-> t.versions, props |-> t.props,
     nodes |-> t.nodes, containers |-> t.containers, next |-> t.next,
     size |-> 0, delta |-> 0,
     report |-> 0, changed |-> FALSE, pre |-> NoVersion, src |-> NoVersion,
     version |-> NoVersion]

\* _update_object_hash: "Check container quota."
quota_check(size_delta, container_quota, usage) ==
    size_delta > 0 /\ container_quota > 0 /\ usage > container_quota

\* _update_object_hash
UpdateObjectHash(t, node, src_node, size, is_copy, report) ==
    LET found == put_version_duplicate_lookup(t.versions, node, src_node)
        vs == View(t.versions,
                   update_object_hash(t.versions, IdleBackend, versioning,
                                      node, found, t.next))
        ps == WithProps(t.props, vs, t.next, size,
                        put_version_duplicate_uuid(t.props, found.src, is_copy,
                                                   t.next))
        del_size == apply_versioning_size(t.props, versioning, freeVersioning,
                                          found.pre)
        size_delta == size - del_size
    IN  [raises |-> IF quota_check(size_delta, containerQuota[node],
                                   container_usage(vs, ps, node))
                    THEN "QuotaError" ELSE "none",
         versions |-> vs, props |-> ps, nodes |-> t.nodes \cup {node},
         containers |-> t.containers, next |-> t.next + 1, size |-> size, delta |-> size_delta,
         report |-> IF report THEN size_delta ELSE 0, changed |-> TRUE,
         pre |-> found.pre, src |-> found.src, version |-> t.next]

\* update_object_meta: _put_metadata and _apply_versioning, nothing is
\* reported.
UpdateObjectMeta(t, node) ==
    IF node \notin t.nodes THEN Raised(t, "ItemNotExists")
    ELSE
    LET found == put_version_duplicate_lookup(t.versions, node, node)
        vs == View(t.versions,
                   update_object_hash(t.versions, IdleBackend, versioning,
                                      node, found, t.next))
        size == put_version_duplicate_size(t.props, found.src)
        ps == WithProps(t.props, vs, t.next, size,
                        put_version_duplicate_uuid(t.props, found.src, FALSE,
                                                   t.next))
    IN  [raises |-> "none", versions |-> vs, props |-> ps, nodes |-> t.nodes,
         containers |-> t.containers, next |-> t.next + 1, size |-> size, delta |-> 0, report |-> 0,
         changed |-> FALSE, pre |-> found.pre, src |-> found.src,
         version |-> t.next]

\* _delete_object without until
DeleteObject(t, node, report) ==
    IF node \notin t.nodes
         \/ version_lookup(t.versions, node, "NORMAL") = NoVersion
    THEN Raised(t, "ItemNotExists")
    ELSE
    LET found == put_version_duplicate_lookup(t.versions, node, node)
        vs == View(t.versions,
                   delete_object(t.versions, IdleBackend, versioning, node,
                                 found, t.next))
        ps == WithProps(t.props, vs, t.next, 0,
                        put_version_duplicate_uuid(t.props, found.src, FALSE,
                                                   t.next))
        del_size == apply_versioning_size(t.props, versioning, freeVersioning,
                                          found.pre)
    IN  [raises |-> "none", versions |-> vs, props |-> ps, nodes |-> t.nodes,
         containers |-> t.containers, next |-> t.next + 1, size |-> 0, delta |-> -del_size,
         report |-> IF report THEN -del_size ELSE 0, changed |-> TRUE,
         pre |-> found.pre, src |-> found.src, version |-> t.next]

\* _delete_object with until: the sizes of the purged NORMAL versions
\* count, those of the HISTORY versions unless free_versioning.
PurgeObject(t, node, until) ==
    IF node \notin t.nodes THEN Raised(t, "ItemNotExists")
    ELSE
    LET normal == {s \in InCluster(t.versions, node, "NORMAL") : s <= until}
        history == {s \in InCluster(t.versions, node, "HISTORY") : s <= until}
        size == SizeSum(t.props, normal)
                  + (IF freeVersioning THEN 0 ELSE SizeSum(t.props, history))
        vs == View(t.versions, purge_object(t.versions, IdleBackend, node, until))
    IN  [raises |-> "none", versions |-> vs,
         props |-> WithProps(t.props, vs, NoVersion, 0, 0), nodes |-> t.nodes,
         containers |-> t.containers, next |-> t.next, size |-> 0, delta |-> -size, report |-> -size,
         changed |-> FALSE, pre |-> NoVersion, src |-> NoVersion,
         version |-> NoVersion]

\* _copy_object within the account and the project: a move reports no
\* change of size and deletes the source.
CopyObject(t, src, dest, is_move) ==
    IF src \notin t.nodes \/ version_lookup(t.versions, src, "NORMAL") = NoVersion
    THEN Raised(t, "ItemNotExists")
    ELSE
    LET size == t.props[version_lookup(t.versions, src, "NORMAL")].size
        put == UpdateObjectHash(t, dest, src, size, ~is_move /\ src # dest,
                                ~is_move)
        del == DeleteObject(put, src, ~is_move)
    IN  IF is_move /\ src # dest /\ put.raises = "none"
        THEN [put EXCEPT !.raises = del.raises, !.versions = del.versions,
                         !.props = del.props, !.next = del.next]
        ELSE put

\* Mutant: a container is removed whatever it holds.
container_not_empty_never(vs, container) ==
    InCluster(vs, container, "NORMAL") # InCluster(vs, container, "NORMAL")

\* delete_container: _get_statistics(node)[0] > 0, the container has
\* children with a NORMAL version.
container_not_empty(vs, container) ==
    InCluster(vs, container, "NORMAL") # {}

\* delete_container without until.  Without delimiter the container must
\* be empty; the HISTORY and DELETED versions of its children are purged
\* and the node is removed.  With a delimiter the objects that exist are
\* deleted as _delete_object deletes them and the container is kept.
DeleteContainer(t, container, delimiter) ==
    IF ~delimiter
    THEN IF container_not_empty(t.versions, container)
         THEN Raised(t, "ContainerNotEmpty")
         ELSE LET size == SizeSum(t.props, InCluster(t.versions, container,
                                                     "HISTORY"))
                  vs == {v \in t.versions :
                            v.node # container \/ v.cluster = "NORMAL"}
                  report == IF freeVersioning THEN 0 ELSE -size
              IN  [raises |-> "none", versions |-> vs,
                   props |-> WithProps(t.props, vs, NoVersion, 0, 0),
                   nodes |-> t.nodes \ {container},
                   containers |-> t.containers \ {container}, next |-> t.next,
                   size |-> 0, delta |-> report, report |-> report,
                   changed |-> FALSE, pre |-> NoVersion, src |-> NoVersion,
                   version |-> NoVersion]
    ELSE IF version_lookup(t.versions, container, "NORMAL") = NoVersion
         THEN [Raised(t, "none") EXCEPT !.changed = FALSE]
         ELSE DeleteObject(t, container, TRUE)

\* The entries of self.messages: from which transaction, one that was
\* committed or one that was not, and how often they were sent to the
\* queue, twice standing for more than once.
Entry(from, sent) == [from |-> from, sent |-> sent]
Sent(e) == [e EXCEPT !.sent = IF @ < 2 THEN @ + 1 ELSE @]

\* pre_exec: self.messages is left as it is.
pre_exec_messages(ms) == ms

\* Mutant: post_exec commits whatever the status.
post_exec_commits_always(success_status, sink) == sink = "ok"

\* post_exec: the transaction is committed after the messages are sent,
\* when the function has returned; it is rolled back when it has raised.
post_exec_commits(success_status, sink) == success_status /\ sink = "ok"

\* backend_method around a function that has done f: pre_exec, the
\* function, its _report_size_change and its _report_object_change, and
\* post_exec.  issue, accept and sink are what becomes of the calls to the
\* quotaholder and to the queue.
BackendMethod(op, node, func, issue, accept, sink) ==
    \E f \in {func} :
    \E r \in {report_size_change(holdings, commissions, nextSerial, f.report)} :
    LET reported == f.raises = "none" /\ f.report # 0
        refused == reported /\ issue # "unreachable" /\ r.status # "ok"
        created == reported /\ issue # "unreachable" /\ r.status = "ok"
        raises == IF f.raises # "none" THEN f.raises
                  ELSE IF reported /\ ~(created /\ issue = "ok") THEN "QuotaError"
                  ELSE "none"
        serials == IF created /\ issue = "ok" THEN {nextSerial} ELSE {}
        produced == reported \/ (raises = "none" /\ f.changed)
        before == pre_exec_messages(messages)
        sending == raises = "none" /\ (before # {} \/ produced)
        commits == post_exec_commits(raises = "none",
                                     IF sending THEN sink ELSE "ok")
        accepting == commits /\ serials # {}
        l == post_exec_serials(raises = "none", serials)
        a == pithos_resolve_commissions(r.holdings, r.commissions, provisionLog,
                                        l.accept, l.reject)
        outbox == before \cup (IF produced
                               THEN {Entry(IF commits THEN "committed"
                                           ELSE "rolledback", 0)}
                               ELSE {})
    IN  /\ ~in_transaction
        /\ nextVersion <= MaxObjectVersion
        /\ nextSerial <= MaxWorkflowSerial
        /\ ~reported => issue = "ok"
        /\ ~created => issue # "lost"
        /\ ~accepting => accept = "ok"
        /\ ~sending => sink = "ok"
        /\ versions' = IF commits THEN f.versions ELSE versions
        /\ props' = IF commits THEN f.props ELSE props
        /\ nodes' = IF commits THEN f.nodes ELSE nodes
        /\ containers' = IF commits THEN f.containers ELSE containers
        /\ nextVersion' = IF commits THEN f.next ELSE nextVersion
        /\ nextSerial' = IF created THEN nextSerial + 1 ELSE nextSerial
        /\ IF accepting /\ accept # "unreachable"
           THEN /\ holdings' = a.holdings
                /\ commissions' = a.commissions
                /\ provisionLog' = a.log
           ELSE /\ holdings' = IF created THEN r.holdings ELSE holdings
                /\ commissions' = IF created THEN r.commissions ELSE commissions
                /\ provisionLog' = provisionLog
        /\ pithosSerials' = IF accepting /\ accept # "ok"
                            THEN pithosSerials \cup serials
                            ELSE pithosSerials
        /\ messages' = IF sending /\ sink = "ok"
                       THEN {Sent(e) : e \in outbox}
                       ELSE outbox
        /\ in_transaction' = (\/ sending /\ sink # "ok"
                              \/ accepting /\ accept # "ok")
        /\ call' = [op |-> op, node |-> node,
                    result |-> IF raises # "none" THEN raises
                               ELSE IF sending /\ sink # "ok" THEN "SinkError"
                               ELSE IF accepting /\ accept # "ok" THEN "AcceptError"
                               ELSE "ok",
                    why |-> IF f.raises = "QuotaError" THEN "container quota"
                            ELSE IF refused THEN "limit"
                            ELSE IF raises = "QuotaError" THEN "call"
                            ELSE "none",
                    delta |-> f.delta,
                    serial |-> IF created THEN nextSerial ELSE NoSerial,
                    version |-> IF commits THEN f.version ELSE NoVersion]
        /\ UNCHANGED <<forced, issuers, mapCheck, cycladesVars, stored, txn, pithosReconciler,
                       failedSerials, containerLocks, backend, versioning,
                       freeVersioning, containerQuota, policyVars>>

\* _lookup_container: "Container does not exist"
InContainers(C, f) ==
    IF C \subseteq containers THEN f ELSE Raised(Tables, "ItemNotExists")

\* The paths of the checks: the object of a container, the container.
ObjectPath(node) == <<"object", node>>
ContainerNodePath(container) == <<"container", container>>
CacheEntry(user, path) == [user |-> user, path |-> path, stale |-> FALSE]

\* check_allowed_paths: a path that is among the user's cached paths is
\* granted at once; otherwise the check is made, and the path is cached
\* when it grants.
check_allowed_paths(d, user, path, granted) ==
    LET hits == {e \in d : e.user = user /\ e.path = path}
    IN  [allowed |-> hits # {} \/ granted,
         cached |-> hits # {},
         stale |-> \E e \in hits : e.stale,
         entries |-> IF hits = {} /\ granted
                     THEN d \cup {CacheEntry(user, path)}
                     ELSE d]

\* (history) a permission record has changed and the entries were left.
Stale(ap) ==
    [read |-> {[e EXCEPT !.stale = TRUE] : e \in ap.read},
     write |-> {[e EXCEPT !.stale = TRUE] : e \in ap.write}]

\* What the calls of the owner leave in the allowed paths, pre_exec having
\* emptied them: the permission index is not touched.
OwnerCall(op, reads, writes) ==
    /\ allowed_paths' = [read |-> {CacheEntry(Account, p) : p \in reads},
                         write |-> {CacheEntry(Account, p) : p \in writes}]
    /\ accessCall' = [op |-> op, user |-> Account, result |-> "allowed",
                      cached |-> FALSE, stale |-> FALSE, fresh |-> TRUE]
    /\ UNCHANGED <<permissions, permissionsCommitted>>

\* The call has committed.
Committed(c) == c.result \in {"ok", "AcceptError"}

\* update_object_hashmap
StorePut(node, size, issue, accept, sink) ==
    /\ BackendMethod("put", node,
                  InContainers({node},
                               UpdateObjectHash(Tables, node, node, size, FALSE,
                                                TRUE)),
                  issue, accept, sink)
    /\ OwnerCall("put", {}, {ObjectPath(node)})

\* update_object_meta
StoreMeta(node, accept, sink) ==
    /\ BackendMethod("meta", node,
                     InContainers({node}, UpdateObjectMeta(Tables, node)),
                     "ok", accept, sink)
    /\ OwnerCall("meta", {}, {ObjectPath(node)})

\* delete_object
StoreDelete(node, issue, accept, sink) ==
    /\ BackendMethod("delete", node,
                     InContainers({node}, DeleteObject(Tables, node, TRUE)),
                     issue, accept, sink)
    /\ OwnerCall("delete", {}, {})

\* delete_object with until
StorePurge(node, issue, accept, sink) ==
    /\ BackendMethod("purge", node,
                     InContainers({node},
                                  PurgeObject(Tables, node, nextVersion - 1)),
                     issue, accept, sink)
    /\ OwnerCall("purge", {}, {})

\* copy_object
StoreCopy(src, dest, issue, accept, sink) ==
    /\ src # dest
    /\ BackendMethod("copy", dest,
                     InContainers({src, dest}, CopyObject(Tables, src, dest, FALSE)),
                     issue, accept, sink)
    /\ OwnerCall("copy", {ObjectPath(src)},
                 IF call'.result = "ItemNotExists" THEN {}
                 ELSE {ObjectPath(dest)})

\* move_object
StoreMove(src, dest, accept, sink) ==
    /\ src # dest
    /\ BackendMethod("move", dest,
                     InContainers({src, dest}, CopyObject(Tables, src, dest, TRUE)),
                     "ok", accept, sink)
    /\ OwnerCall("move",
                 IF call'.result = "ItemNotExists" THEN {ObjectPath(src)}
                 ELSE {},
                 {})

\* delete_container
StoreDeleteContainer(container, delimiter, issue, accept, sink) ==
    /\ BackendMethod(IF delimiter THEN "delete_container_delimiter"
                     ELSE "delete_container",
                     container,
                     InContainers({container},
                                  DeleteContainer(Tables, container, delimiter)),
                     issue, accept, sink)
    /\ OwnerCall("delete_container", {},
                 IF call'.result \in {"ItemNotExists", "ContainerNotEmpty"}
                 THEN {ContainerNodePath(container)}
                 ELSE {})

\* The calls of the instance, with what may become of the calls to the
\* quotaholder and to the queue.
SomePut(C, R, Q) ==
    \E c \in C, size \in Sizes, issue, accept \in R, sink \in Q :
        StorePut(c, size, issue, accept, sink)
SomeMeta(C, R, Q) ==
    \E c \in C, accept \in R, sink \in Q : StoreMeta(c, accept, sink)
SomeDelete(C, R, Q) ==
    \E c \in C, issue, accept \in R, sink \in Q :
        StoreDelete(c, issue, accept, sink)
SomePurge(C, R, Q) ==
    \E c \in C, issue, accept \in R, sink \in Q :
        StorePurge(c, issue, accept, sink)
SomeCopy(C, R, Q) ==
    \E c, d \in C, issue, accept \in R, sink \in Q :
        StoreCopy(c, d, issue, accept, sink)
SomeMove(C, R, Q) ==
    \E c, d \in C, accept \in R, sink \in Q : StoreMove(c, d, accept, sink)
SomeDeleteContainer(C, R, Q) ==
    \E c \in C, delimiter \in BOOLEAN, issue, accept \in R, sink \in Q :
        StoreDeleteContainer(c, delimiter, issue, accept, sink)

\* The calls on the two objects, the quotaholder and the queue answering.
NextStore ==
    \/ SomePut(Containers, {"ok"}, {"ok"})
    \/ SomeMeta(Containers, {"ok"}, {"ok"})
    \/ SomeDelete(Containers, {"ok"}, {"ok"})
    \/ SomePurge(Containers, {"ok"}, {"ok"})
    \/ SomeCopy(Containers, {"ok"}, {"ok"})
    \/ SomeMove(Containers, {"ok"}, {"ok"})

SpecStore == InitStore /\ [][NextStore]_vars

\* The calls on the containers and on the objects in them.
NextContainers ==
    \/ SomePut(Containers, {"ok"}, {"ok"})
    \/ SomeDelete(Containers, {"ok"}, {"ok"})
    \/ SomeDeleteContainer(Containers, {"ok"}, {"ok"})

SpecContainers == InitStore /\ [][NextContainers]_vars

\* The calls on one object, whatever becomes of the calls to the
\* quotaholder and to the queue.
NextEvents ==
    \/ SomePut({FirstContainer}, Replies, SinkReplies)
    \/ SomeMeta({FirstContainer}, Replies, SinkReplies)
    \/ SomeDelete({FirstContainer}, Replies, SinkReplies)
    \/ SomePurge({FirstContainer}, Replies, SinkReplies)

SpecEvents == InitStore /\ [][NextEvents]_vars
\* ------------------------------------------------- claims on sizes and quota

Charged(hs) == hs[PithosKey].usage_max
\* The version that a call on the node supersedes.
Superseded(node) == version_lookup(versions, node, "NORMAL")
SizeOf(ps, version_id) == IF version_id = NoVersion THEN 0 ELSE ps[version_id].size
Written(op) == call'.op = op /\ call'.result = "ok"
OtherContainer(c) == CHOOSE d \in Containers : d # c

\* C22: with versioning 'none' an upload over an existing object removes
\* the version it supersedes, and charges new_size - previous_size with a
\* commission of that quantity, or with none when the sizes are equal; an
\* upload of a new object charges its size.
C22_OverwriteDelta ==
    [][(Written("put") /\ versioning = "none")
       => LET pre == Superseded(call'.node)
              delta == props'[call'.version].size - SizeOf(props, pre)
          IN  /\ \A v \in versions' :
                    v.node = call'.node =>
                      /\ v.serial # pre
                      /\ v.cluster = "HISTORY" => v \in versions
              /\ call'.delta = delta
              /\ Charged(holdings') = Charged(holdings) + delta
              /\ IF delta = 0
                 THEN call'.serial = NoSerial /\ provisionLog' = provisionLog
                 ELSE provisionLog' \ provisionLog
                        = {[serial |-> call'.serial, key |-> PithosKey,
                            accept |-> TRUE]}]_vars

\* An object has been overwritten by a smaller one.
C22_Witness ==
    /\ versioning = "none"
    /\ call.op = "put"
    /\ call.result = "ok"
    /\ call.delta < 0
    /\ call.serial # NoSerial

\* C23 as the specification has it: delete_object creates a DELETED
\* version; with versioning 'auto' the version before is kept as HISTORY
\* and nothing is refunded, with 'none' it is removed and its bytes are
\* refunded.
C23_RefundByPolicy ==
    [][Written("delete")
       => LET pre == Superseded(call'.node)
              refund == Charged(holdings) - Charged(holdings')
          IN  /\ [serial |-> call'.version, node |-> call'.node,
                  cluster |-> "DELETED", pre |-> pre] \in versions'
              /\ IF versioning = "auto"
                 THEN /\ [serial |-> pre, node |-> call'.node,
                          cluster |-> "HISTORY"] \in
                            {[serial |-> v.serial, node |-> v.node,
                              cluster |-> v.cluster] : v \in versions'}
                      /\ refund = 0
                 ELSE /\ \A v \in versions' : v.serial # pre
                      /\ refund = SizeOf(props, pre)]_vars

\* C23: delete_object creates a DELETED version; with versioning 'auto'
\* the version before is kept as HISTORY, and its bytes are refunded at
\* once when free_versioning is on and not before it is purged when it is
\* off; with 'none' the version before is removed and its bytes are
\* refunded.  A purge refunds the bytes of the HISTORY versions only when
\* free_versioning is off.
C23_RefundByPolicyAndFreeVersioning ==
    [][LET refund == Charged(holdings) - Charged(holdings')
           pre == Superseded(call'.node)
           of_node(cluster) == InCluster(versions, call'.node, cluster)
       IN  /\ Written("delete")
              => /\ [serial |-> call'.version, node |-> call'.node,
                     cluster |-> "DELETED", pre |-> pre] \in versions'
                 /\ IF versioning = "auto"
                    THEN /\ pre \in InCluster(versions', call'.node, "HISTORY")
                         /\ refund = IF freeVersioning THEN SizeOf(props, pre)
                                     ELSE 0
                    ELSE /\ \A v \in versions' : v.serial # pre
                         /\ refund = SizeOf(props, pre)
           /\ Written("purge")
              => refund = SizeSum(props, of_node("NORMAL"))
                            + (IF freeVersioning THEN 0
                               ELSE SizeSum(props, of_node("HISTORY")))]_vars

\* With versioning 'auto' and free_versioning on an object has been
\* deleted: its bytes have been refunded and its version is kept.
C23_Witness ==
    /\ versioning = "auto"
    /\ freeVersioning
    /\ call.op = "delete"
    /\ call.result = "ok"
    /\ call.delta < 0
    /\ InCluster(versions, call.node, "HISTORY") # {}

\* C25: the uuid of an object is that of the version before when its
\* metadata are updated or it is overwritten, and that of the source when
\* it is moved; the destination of a copy gets a uuid that no version has,
\* and the source keeps its version; an object that is created gets a uuid
\* that no version has.
C25_UuidStable ==
    [][LET uuid == props'[call'.version].uuid
           pre == Superseded(call'.node)
           src == Superseded(OtherContainer(call'.node))
           uuids == {props[s].uuid : s \in DOMAIN props}
       IN  /\ (Written("meta") \/ Written("put")) /\ pre # NoVersion
              => uuid = props[pre].uuid
           /\ Written("move") => uuid = props[src].uuid
           /\ Written("copy")
              => /\ uuid \notin uuids
                 /\ version_lookup(versions', OtherContainer(call'.node),
                                   "NORMAL") = src
                 /\ props'[src] = props[src]
           /\ Written("put") /\ pre = NoVersion => uuid \notin uuids]_vars

\* An object that was uploaded and overwritten has been moved, and has the
\* uuid of the upload.
C25_Witness ==
    /\ call.op = "move"
    /\ call.result = "ok"
    /\ props[call.version].uuid < call.version - 1

\* ------------------------------------------------------- claims on the events

\* C27: a message of a transaction that was not committed is never sent to
\* the queue, not by its own post_exec and not by that of a later
\* transaction of the backend instance.
C27_OnlyCommittedEventsSent ==
    \A e \in messages : e.from = "rolledback" => e.sent = 0

\* C28: when sending a message fails in the post_exec of a call that has
\* created a version, the version is committed and the commission of the
\* call is accepted all the same.
C28_SinkBestEffort ==
    [][(call'.result = "SinkError" /\ call'.op \in {"put", "delete"})
       => /\ \E v \in versions' : v.serial = nextVersion
          /\ call'.serial # NoSerial
             => [serial |-> call'.serial, key |-> PithosKey, accept |-> TRUE]
                  \in provisionLog']_vars

\* ================================ pithos.backends.modular: container policy
\* update_container_policy with a project, as one transaction of a backend,
\* and the reconciler of Pithos beside it.  The container holds MaxSize
\* bytes.

ProjectKey(project) == <<"user1", project, "disk">>

InitPolicy ==
    /\ \E limit \in {0, MaxSize} :
         holdings = [k \in {ProjectKey(p) : p \in Projects} |->
                        IF k = PithosKey
                        THEN [limit |-> MaxSize, usage_min |-> MaxSize,
                              usage_max |-> MaxSize]
                        ELSE [limit |-> limit, usage_min |-> 0, usage_max |-> 0]]
    /\ commissions = EmptyMap
    /\ nextSerial = 1
    /\ provisionLog = {}
    /\ forced = {}
    /\ issuers = NoIssuers
    /\ mapCheck = NoMapCheck
    /\ ServicesIdle

\* issue_resource_reassignment: one commission that releases the bytes at
\* the project they are charged to and imports them at to_source.
issue_resource_reassignment(hs, cms, serial, from_source, to_source, bytes) ==
    issue_commission(hs, cms, serial, PithosClient,
                     << <<ProjectKey(from_source), -bytes>>,
                        <<ProjectKey(to_source), bytes>> >>,
                     FALSE, <<ProjectKey(from_source), ProjectKey(to_source)>>)

PolicyResult(result, serial) ==
    [NoCall EXCEPT !.op = "policy", !.result = result, !.serial = serial]

\* update_container_policy up to the return of the function: pre_exec, the
\* reassignment commission is issued, then _put_policy stores the policy in
\* the open transaction.  When the issue raises, QuotaError is raised and
\* post_exec(False), which has no serial to reject, rolls back.
UpdateContainerPolicy(project, reply) ==
    /\ policyCall.pc = "idle"
    /\ nextSerial <= MaxWorkflowSerial
    /\ project # containerPolicy.project
    /\ LET r == issue_resource_reassignment(holdings, commissions, nextSerial,
                                            containerPolicy.project, project,
                                            MaxSize)
           created == reply # "unreachable" /\ r.status = "ok"
       IN  /\ ~created => reply # "lost"
           /\ holdings' = IF created THEN r.holdings ELSE holdings
           /\ commissions' = IF created THEN r.commissions ELSE commissions
           /\ nextSerial' = IF created THEN nextSerial + 1 ELSE nextSerial
           /\ policyCall' = IF created /\ reply = "ok"
                            THEN [pc |-> "stored", serial |-> nextSerial,
                                  project |-> project]
                            ELSE NoPolicyCall
           /\ call' = IF created /\ reply = "ok"
                      THEN PolicyResult("none", nextSerial)
                      ELSE PolicyResult("QuotaError", NoSerial)
    /\ UNCHANGED <<provisionLog, forced, issuers, mapCheck, cycladesVars, pithosVars, versionVars,
                   instanceVars, containerPolicy>>

\* The end of the call, to the quotaholder and to the committed tables.
PolicyEnd(result) ==
    /\ policyCall' = NoPolicyCall
    /\ call' = PolicyResult(result, policyCall.serial)
    /\ UNCHANGED <<nextSerial, forced, issuers, mapCheck, cycladesVars, stored, txn,
                   pithosReconciler, failedSerials, versionVars, instanceVars>>

\* post_exec(True) up to its first commit: the serial is inserted in
\* commission_serials and committed together with the policy.
PolicyPostExecRegister ==
    /\ policyCall.pc = "stored"
    /\ pithosSerials' = pithosSerials \cup {policyCall.serial}
    /\ containerPolicy' = [project |-> policyCall.project,
                           serial |-> policyCall.serial]
    /\ policyCall' = [policyCall EXCEPT !.pc = "registered"]
    /\ UNCHANGED <<quotaholderVars, cycladesVars, stored, txn, pithosReconciler,
                   failedSerials, versionVars, instanceVars, call>>

\* post_exec(True) after its first commit: the serial is accepted, and
\* deleted from commission_serials if the answer has it as accepted.
PolicyPostExecAccept(reply) ==
    /\ policyCall.pc = "registered"
    /\ LET l == post_exec_serials(TRUE, {policyCall.serial})
           r == pithos_resolve_commissions(holdings, commissions, provisionLog,
                                           l.accept, l.reject)
       IN  /\ IF reply = "unreachable"
              THEN UNCHANGED <<holdings, commissions, provisionLog>>
              ELSE /\ holdings' = r.holdings
                   /\ commissions' = r.commissions
                   /\ provisionLog' = r.log
           /\ pithosSerials' = IF reply = "ok" THEN pithosSerials \ r.accepted
                               ELSE pithosSerials
    /\ PolicyEnd(IF reply = "ok" THEN "ok" ELSE "AcceptError")
    /\ UNCHANGED containerPolicy

\* The function raises after the commission is issued (_check_policy,
\* ValueError): post_exec(False) rejects the serial and rolls back.
PolicyPostExecReject(reply) ==
    /\ policyCall.pc = "stored"
    /\ LET l == post_exec_serials(FALSE, {policyCall.serial})
           r == pithos_resolve_commissions(holdings, commissions, provisionLog,
                                           l.accept, l.reject)
       IN  IF reply = "unreachable"
           THEN UNCHANGED <<holdings, commissions, provisionLog>>
           ELSE /\ holdings' = r.holdings
                /\ commissions' = r.commissions
                /\ provisionLog' = r.log
    /\ PolicyEnd("ValueError")
    /\ UNCHANGED <<pithosSerials, containerPolicy>>

\* The process of the call dies; what it has not committed is lost.
PolicyCrash ==
    /\ policyCall.pc # "idle"
    /\ PolicyEnd("died")
    /\ UNCHANGED <<holdings, commissions, provisionLog, pithosSerials,
                   containerPolicy>>

NextPolicy ==
    \/ \E p \in Projects, reply \in Replies : UpdateContainerPolicy(p, reply)
    \/ PolicyPostExecRegister
    \/ \E reply \in Replies : PolicyPostExecAccept(reply)
    \/ \E reply \in Replies : PolicyPostExecReject(reply)
    \/ PolicyCrash
    \/ PithosRecDecide
    \/ \E reply \in Replies : PithosRecResolve(reply)

SpecPolicy == InitPolicy /\ [][NextPolicy]_vars

\* The calls with no reconciler run beside them.
NextPolicyAlone ==
    \/ \E p \in Projects, reply \in Replies : UpdateContainerPolicy(p, reply)
    \/ PolicyPostExecRegister
    \/ \E reply \in Replies : PolicyPostExecAccept(reply)
    \/ \E reply \in Replies : PolicyPostExecReject(reply)
    \/ PolicyCrash

SpecPolicyAlone == InitPolicy /\ [][NextPolicyAlone]_vars

\* ------------------------------------------------ claims on the policy

RejectedAt(log, serial) ==
    \E row \in log : row.serial = serial /\ ~row.accept

\* C24: the project of a container is stored only by a call whose
\* reassignment commission was issued, a call whose issue fails raises
\* QuotaError and leaves the policy as it was, and the commission of the
\* call that stored the policy in effect has not been rejected.
C24_PolicyFollowsCommission ==
    [][/\ containerPolicy' # containerPolicy
          => /\ policyCall.serial # NoSerial
             /\ policyCall.serial < nextSerial
             /\ containerPolicy' = [project |-> policyCall.project,
                                    serial |-> policyCall.serial]
       /\ (call' # call /\ call'.result = "QuotaError")
          => containerPolicy' = containerPolicy /\ policyCall' = NoPolicyCall
       /\ ~RejectedAt(provisionLog', containerPolicy'.serial)]_vars

\* --------------------------------------------------- claims on the containers

Shared == FirstContainer
\* The permissions that the calls set, the members they give the group.
PermissionInputs ==
    {[read |-> {}, write |-> {}],
     [read |-> {"account:group"}, write |-> {}],
     [read |-> {}, write |-> {"other"}]}
GroupInputs == {{}, {"other"}}
\* Those of them that name the group, or nobody.
GroupPermissions == {p \in PermissionInputs : p.write = {}}

\* Permission index, access_check: the principal, or a group of the account
\* that has the principal, is in the list of the action.
access_check(perm, access, user) ==
    \/ user \in perm[access]
    \/ "account:group" \in perm[access] /\ user \in perm.group

\* Permission index, access_set and access_clear.
access_set(perm, lists) ==
    [perm EXCEPT !.read = lists.read, !.write = lists.write]
access_clear(perm) == [perm EXCEPT !.read = {}, !.write = {}]

\* _can_read_object, without the cache.
can_read_object(perm, user) ==
    \/ user = Account
    \/ perm.public
    \/ access_check(perm, "read", user)
    \/ access_check(perm, "write", user)

\* Mutant: the read list grants writes.
can_write_object_by_read(perm, user) ==
    user = Account \/ access_check(perm, "write", user)
                   \/ access_check(perm, "read", user)

\* _can_write_object, without the cache.
can_write_object(perm, user) ==
    user = Account \/ access_check(perm, "write", user)

\* _can_write_account and _can_write_container, without the cache.
can_write_account(user) == user = Account

\* The allowed paths that a call finds: pre_exec empties them unless the
\* call is made in a transaction that is open.
FoundPaths == IF in_transaction THEN allowed_paths ELSE NoAllowedPaths

\* _lookup_object
ObjectExists == Shared \in nodes

\* A call that writes to the permission index only, in a transaction of
\* its own (pre_exec, the function, post_exec) or within one that is open.
\* raises: what the function raises; perm: the index as the function
\* leaves it; paths: the allowed paths as the function leaves them;
\* produced: whether it has appended a message.
IndexCall(op, user, check, raises, perm, paths, produced) ==
    LET ok == raises = "none"
        after == IF ok THEN perm ELSE permissions
        outbox == messages \cup (IF ok /\ produced
                                 THEN {Entry(IF in_transaction THEN "open"
                                             ELSE "committed", 0)}
                                 ELSE {})
    IN  /\ permissions' = after
        /\ permissionsCommitted' = IF in_transaction THEN permissionsCommitted
                                   ELSE after
        /\ allowed_paths' = paths
        /\ messages' = IF in_transaction THEN outbox
                       ELSE IF ok /\ outbox # {} THEN {Sent(e) : e \in outbox}
                       ELSE messages
        /\ accessCall' = [op |-> op, user |-> user,
                          result |-> IF raises = "none" THEN "allowed"
                                     ELSE raises,
                          cached |-> check.cached, stale |-> check.stale,
                          fresh |-> check.fresh]
        /\ UNCHANGED <<quotaholderVars, cycladesVars, pithosVars, versionVars,
                       props, nodes, containers, freeVersioning, containerQuota,
                       in_transaction, call, policyVars>>

\* A check that is not made through check_allowed_paths.
Uncached(granted) ==
    [allowed |-> granted, cached |-> FALSE, stale |-> FALSE, fresh |-> granted]

\* A check made through check_allowed_paths, with what the function under
\* the decorator decides.
Check(d, user, path, granted) ==
    LET c == check_allowed_paths(d, user, path, granted)
    IN  [allowed |-> c.allowed, cached |-> c.cached, stale |-> c.stale,
         fresh |-> granted, entries |-> c.entries]

\* get_object_meta
GetObjectMeta(user) ==
    LET c == Check(FoundPaths.read, user, ObjectPath(Shared),
                   can_read_object(permissions, user))
    IN  IndexCall("get_object_meta", user, c,
                  IF ~c.allowed THEN "NotAllowedError"
                  ELSE IF ~ObjectExists THEN "ItemNotExists"
                  ELSE "none",
                  permissions, [FoundPaths EXCEPT !.read = c.entries], FALSE)

\* update_object_permissions: it ends with _reset_allowed_paths.
UpdateObjectPermissions(user, lists) ==
    LET c == Uncached(user = Account)
        perm == access_set(permissions, lists)
    IN  IndexCall("update_object_permissions", user, c,
                  IF ~c.allowed THEN "NotAllowedError"
                  ELSE IF ~ObjectExists \/ Shared \notin containers
                  THEN "ItemNotExists"
                  ELSE "none",
                  perm,
                  IF c.allowed /\ ObjectExists /\ Shared \in containers
                  THEN NoAllowedPaths
                  ELSE FoundPaths,
                  TRUE)

\* update_object_public: the allowed paths are left as they are.
UpdateObjectPublic(user, public) ==
    LET c == Check(FoundPaths.write, user, ObjectPath(Shared),
                   can_write_object(permissions, user))
        exists == ObjectExists /\ Shared \in containers
        perm == [permissions EXCEPT !.public = public]
        paths == [FoundPaths EXCEPT !.write = c.entries]
    IN  IndexCall("update_object_public", user, c,
                  IF ~c.allowed THEN "NotAllowedError"
                  ELSE IF ~exists THEN "ItemNotExists"
                  ELSE "none",
                  perm,
                  IF c.allowed /\ exists /\ perm # permissions
                  THEN Stale(paths) ELSE paths,
                  FALSE)

\* update_account_groups: the allowed paths are left as they are.
UpdateAccountGroups(user, members) ==
    LET c == Check(FoundPaths.write, user, <<"account">>,
                   can_write_account(user))
        perm == [permissions EXCEPT !.group = members]
        paths == [FoundPaths EXCEPT !.write = c.entries]
    IN  IndexCall("update_account_groups", user, c,
                  IF ~c.allowed THEN "NotAllowedError" ELSE "none",
                  perm,
                  IF c.allowed /\ perm # permissions
                  THEN Stale(paths) ELSE paths,
                  FALSE)

\* The caller opens a transaction of several calls: pre_exec.
TransactionPreExec ==
    /\ ~in_transaction
    /\ in_transaction' = TRUE
    /\ allowed_paths' = NoAllowedPaths
    /\ UNCHANGED <<quotaholderVars, cycladesVars, pithosVars, versionVars,
                   props, nodes, containers, freeVersioning, containerQuota,
                   messages, call, policyVars, permissions,
                   permissionsCommitted, accessCall>>

\* The caller ends its transaction: post_exec.
TransactionPostExec(success) ==
    /\ in_transaction
    /\ in_transaction' = FALSE
    /\ messages' = {IF e.from # "open" THEN (IF success THEN Sent(e) ELSE e)
                    ELSE IF success THEN Sent(Entry("committed", e.sent))
                    ELSE Entry("rolledback", e.sent) : e \in messages}
    /\ permissions' = IF success THEN permissions ELSE permissionsCommitted
    /\ permissionsCommitted' = permissions'
    /\ UNCHANGED <<quotaholderVars, cycladesVars, pithosVars, versionVars,
                   props, nodes, containers, freeVersioning, containerQuota,
                   call, policyVars, allowed_paths, accessCall>>

\* What a call of the user on the object leaves besides the tables: the
\* permission index, the allowed paths (pre_exec has emptied them), and
\* who called.
UserCall(op, user, check, perm, paths) ==
    /\ permissions' = IF Committed(call') THEN perm ELSE permissions
    /\ permissionsCommitted' = permissions'
    /\ allowed_paths' = paths
    /\ accessCall' = [op |-> op, user |-> user,
                      result |-> IF check.allowed THEN "allowed"
                                 ELSE "NotAllowedError",
                      cached |-> FALSE, stale |-> FALSE, fresh |-> check.fresh]

\* update_object_hashmap by the user, with permissions (sharing = <<p>>) or
\* without (<<>>).
PutAs(user, size, sharing, issue, accept, sink) ==
    LET owner == sharing = <<>> \/ user = Account
        c == Uncached(owner /\ can_write_object(permissions, user))
        perm == IF sharing = <<>> THEN permissions
                ELSE access_set(permissions, sharing[1])
        entries == IF c.allowed THEN {CacheEntry(user, ObjectPath(Shared))}
                   ELSE {}
    IN  /\ BackendMethod("put", Shared,
                         IF ~c.allowed THEN Raised(Tables, "NotAllowedError")
                         ELSE InContainers({Shared},
                                           UpdateObjectHash(Tables, Shared, Shared,
                                                            size, FALSE, TRUE)),
                         issue, accept, sink)
        /\ UserCall(IF sharing = <<>> THEN "put" ELSE "put_permissions",
                    user, c, perm,
                    IF Committed(call') /\ perm # permissions
                    THEN Stale([read |-> {}, write |-> entries])
                    ELSE [read |-> {}, write |-> entries])

\* update_object_meta by the user.
MetaAs(user, accept, sink) ==
    LET c == Uncached(can_write_object(permissions, user))
    IN  /\ BackendMethod("meta", Shared,
                         IF ~c.allowed THEN Raised(Tables, "NotAllowedError")
                         ELSE InContainers({Shared},
                                           UpdateObjectMeta(Tables, Shared)),
                         "ok", accept, sink)
        /\ UserCall("meta", user, c, permissions,
                    [read |-> {},
                     write |-> IF c.allowed
                               THEN {CacheEntry(user, ObjectPath(Shared))}
                               ELSE {}])

\* delete_object by the user: the permissions of the path are cleared.
DeleteAs(user, issue, accept, sink) ==
    LET c == Uncached(user = Account)
    IN  /\ BackendMethod("delete", Shared,
                         IF ~c.allowed THEN Raised(Tables, "NotAllowedError")
                         ELSE InContainers({Shared},
                                           DeleteObject(Tables, Shared, TRUE)),
                         issue, accept, sink)
        /\ UserCall("delete", user, c, access_clear(permissions),
                    NoAllowedPaths)

\* delete_container by the user, without a delimiter.
DeleteContainerAs(user, issue, accept, sink) ==
    LET c == Uncached(can_write_account(user))
    IN  /\ BackendMethod("delete_container", Shared,
                         IF ~c.allowed THEN Raised(Tables, "NotAllowedError")
                         ELSE InContainers({Shared},
                                           DeleteContainer(Tables, Shared, FALSE)),
                         issue, accept, sink)
        /\ UserCall("delete_container", user, c, permissions,
                    [read |-> {},
                     write |-> IF c.allowed /\ call'.result # "ok"
                               THEN {CacheEntry(user, ContainerNodePath(Shared))}
                               ELSE {}])

\* The calls that only read and write the permission index, made by the
\* two users on their own and in the transactions of a caller, on an
\* object that the owner has uploaded.
NextAccess ==
    \/ ~ObjectExists /\ PutAs(Account, 1, <<>>, "ok", "ok", "ok")
    \/ \E user \in Users : GetObjectMeta(user)
    \/ \E lists \in GroupPermissions : UpdateObjectPermissions(Account, lists)
    \/ \E public \in BOOLEAN : UpdateObjectPublic(Account, public)
    \/ \E members \in GroupInputs : UpdateAccountGroups(Account, members)
    \/ TransactionPreExec
    \/ \E success \in BOOLEAN : TransactionPostExec(success)

\* The calls of the two users that write, each in a transaction of its own.
NextSharing ==
    \/ \E user \in Users,
          sharing \in {<<>>} \cup {<<p>> : p \in PermissionInputs} :
           PutAs(user, 1, sharing, "ok", "ok", "ok")
    \/ \E user \in Users : MetaAs(user, "ok", "ok")
    \/ \E user \in Users : DeleteAs(user, "ok", "ok", "ok")
    \/ \E user \in Users : DeleteContainerAs(user, "ok", "ok", "ok")
    \/ \E user \in Users, lists \in PermissionInputs :
           UpdateObjectPermissions(user, lists)
    \/ \E user \in Users, public \in BOOLEAN : UpdateObjectPublic(user, public)
    \/ \E user \in Users, members \in GroupInputs :
           UpdateAccountGroups(user, members)

InitAccess ==
    /\ InitStore
    /\ versioning = "auto"
    /\ freeVersioning

SpecSharing == InitAccess /\ [][NextSharing]_vars

SpecAccess == InitAccess /\ [][NextAccess]_vars

\* ------------------------------------------------ claims on the access checks

\* C29: a check of access is never granted by an entry of the allowed paths
\* that was cached before a permission record changed in the transaction:
\* every change of the read and write lists, of the public mapping or of
\* the groups empties the allowed paths.
C29_CacheClearedOnMutation ==
    accessCall.cached => ~accessCall.stale

\* What the permission index itself says of a check that the allowed paths
\* granted (the consequence of a stale entry).
CachedCheckAgrees ==
    accessCall.cached => accessCall.fresh

\* The calls that write, and what a call that is refused must leave alone.
MutatingCalls ==
    {"put", "put_permissions", "meta", "delete", "delete_container",
     "update_object_permissions", "update_object_public",
     "update_account_groups"}
WrittenState ==
    <<versions, props, nodes, containers, nextVersion, holdings, commissions,
      provisionLog, pithosSerials, nextSerial, permissions,
      permissionsCommitted, messages>>
CallOfOther ==
    /\ accessCall' # accessCall
    /\ accessCall'.user # Account
    /\ accessCall'.op \in MutatingCalls

\* C30 as stated: every call that writes, made by a user who is not the
\* account, raises NotAllowedError and changes no state.
C30_CrossAccountWritesRefused ==
    [][CallOfOther
       => /\ accessCall'.result = "NotAllowedError"
          /\ UNCHANGED WrittenState]_vars

\* C30 as the code has it: a user who is not the account is refused, and
\* nothing changes, unless the call is an upload without permissions, an
\* update of the metadata or of the public mapping of an object on which
\* the write list grants the user (or a group of the user) access; such a
\* call is not refused.
C30_CrossAccountWritesNeedGrant ==
    [][CallOfOther
       => IF /\ accessCall'.op \in {"put", "meta", "update_object_public"}
             /\ access_check(permissions, "write", accessCall'.user)
          THEN accessCall'.result # "NotAllowedError"
          ELSE /\ accessCall'.result = "NotAllowedError"
               /\ UNCHANGED WrittenState]_vars

\* The user whom the write list of the object names was refused its
\* deletion, the object being there.
C30_Witness ==
    /\ accessCall.user = "other"
    /\ accessCall.op = "delete"
    /\ accessCall.result = "NotAllowedError"
    /\ access_check(permissions, "write", "other")
    /\ version_lookup(versions, Shared, "NORMAL") # NoVersion

\* C36: between the top-level calls of a backend instance in_transaction is
\* false: every call, whatever fails in its post_exec (sending the
\* messages, committing, resolving the commissions), ends its transaction,
\* so that the next call opens one of its own.
C36_TransactionClosed ==
    ~in_transaction

\* C38: a message is sent to the queue at most once, whatever the number of
\* transactions that commit on the backend instance after the one that
\* produced it.
C38_SentAtMostOnce ==
    \A e \in messages : e.sent <= 1

\* C33: with free_versioning, whatever calls have committed, what the
\* commissions of the backend have charged to the account is the total
\* size of its versions in the NORMAL cluster.
C33_BytesConserved ==
    freeVersioning
        => Charged(holdings)
             = SizeSum(props, {v.serial : v \in {x \in versions :
                                                    x.cluster = "NORMAL"}})

\* C34: no step makes the quotaholder reject a commission of Cyclades whose
\* serial the issuing transaction has committed locally as one to accept
\* (pending=false, accept=true): a run of the reconciler that overlaps a
\* request between its issue and its commit leaves the commission to be
\* accepted.
C34_InFlightNeverRejected ==
    [][\A row \in provisionLog' \ provisionLog :
          (~row.accept /\ row.key = CycladesKey)
            => ~(/\ row.serial \in DOMAIN serialsTable
                 /\ ~serialsTable[row.serial].pending
                 /\ serialsTable[row.serial].accept)]_vars

\* ------------------------------ update_container_policy without a project

\* _get_default_policy for a container of the account: the default policy
\* has the account's own project.
get_default_policy == [project |-> "system"]

\* _put_policy: with replace, every key of the default policy that the given
\* policy lacks is filled in from the default; the keys of the resulting
\* policy are then stored over those of the node, whose project was
\* project.  Of the keys of policy only the project matters here.
put_policy(project, policy, replace) ==
    IF "project" \in DOMAIN policy
    THEN policy.project
    ELSE IF replace THEN get_default_policy.project ELSE project

\* update_container_policy with a policy that has no project key (a quota
\* or a versioning only), as one whole call: no commission is issued,
\* _put_policy stores the policy, post_exec(True) has no serial and commits.
UpdateContainerPolicyNoProject(replace) ==
    /\ policyCall.pc = "idle"
    /\ containerPolicy' =
         [project |-> put_policy(containerPolicy.project, <<>>, replace),
          serial |-> IF put_policy(containerPolicy.project, <<>>, replace)
                          = containerPolicy.project
                     THEN containerPolicy.serial ELSE NoSerial]
    /\ policyCall' = NoPolicyCall
    /\ call' = [PolicyResult("ok", NoSerial) EXCEPT
                   !.why = IF replace THEN "replace" ELSE "update"]
    /\ UNCHANGED <<quotaholderVars, cycladesVars, pithosVars, versionVars,
                   instanceVars>>

\* The calls with and without a project, with no reconciler beside them.
NextPolicyKeys ==
    \/ \E p \in Projects, reply \in Replies : UpdateContainerPolicy(p, reply)
    \/ \E replace \in BOOLEAN : UpdateContainerPolicyNoProject(replace)
    \/ PolicyPostExecRegister
    \/ \E reply \in Replies : PolicyPostExecAccept(reply)
    \/ \E reply \in Replies : PolicyPostExecReject(reply)
    \/ PolicyCrash

SpecPolicyKeys == InitPolicy /\ [][NextPolicyKeys]_vars

\* C37: the stored project of a container changes only in the commit of a
\* call that issued a commission moving the bytes of the container from the
\* old project to the new one, and a call whose policy has no project key,
\* with replace or without, leaves the stored project as it was.
C37_ProjectChangesWithCommission ==
    [][/\ containerPolicy'.project # containerPolicy.project
          => /\ policyCall.serial # NoSerial
             /\ policyCall.serial < nextSerial
             /\ policyCall.project = containerPolicy'.project
       /\ (call' # call /\ call'.op = "policy"
                        /\ call'.why \in {"replace", "update"})
          => containerPolicy'.project = containerPolicy.project]_vars

\* ===================================== synnefo.quotas: the kinds of resource
\* issue_and_accept_commission for a Network, a floating IPAddress and a
\* Volume of one user, called as the handlers of synnefo.logic.ips call it:
\* in the transaction that creates the resource, marks it as deleted or
\* reassigns it.  quotable is the row of the resource with its kind, project
\* and size, request is the last call and what came of it.  The reconciler
\* of Cyclades runs beside the calls.

Kinds == {"Network", "IPAddress", "Volume"}
ResourceOf(kind) ==
    IF kind = "Network" THEN "cyclades.network.private"
    ELSE IF kind = "IPAddress" THEN "cyclades.floating_ip"
    ELSE "cyclades.disk"
ResourceKey(project, kind) == <<"user1", project, ResourceOf(kind)>>
KindActions == {"BUILD", "DESTROY", "REASSIGN"}

\* get_commission_info returns None
NoProvisions == [none |-> TRUE, resources |-> <<>>]
Provisions(resources) == [none |-> FALSE, resources |-> resources]

reverse_quantities(resources) ==
    [r \in DOMAIN resources |-> -resources[r]]

\* get_commission_info for a Network, a floating IPAddress and a Volume.
\* For a Volume and DESTROY the reversed quantities are computed and not
\* returned: the function falls through to its end.
get_commission_info_of(resource, action) ==
    LET resources == [r \in {ResourceOf(resource.kind)} |->
                         IF resource.kind = "Volume"
                         THEN resource.size * (2 ^ 30) ELSE 1]
    IN  IF resource.kind \in {"Network", "IPAddress"}
        THEN IF action = "BUILD" THEN Provisions(resources)
             ELSE IF action = "DESTROY"
             THEN Provisions(reverse_quantities(resources))
             ELSE IF action = "REASSIGN" THEN Provisions(resources)
             ELSE NoProvisions
        ELSE IF resource.status = "CREATING" /\ action = "BUILD"
             THEN Provisions(resources)
             ELSE NoProvisions

\* synnefo.quotas.issue_commission for a resource of any kind: nothing is
\* issued when there are no provisions; REASSIGN reads from_project and
\* to_project of action_fields and raises when one of them is missing; the
\* other actions charge the project of the resource.
issue_commission_of(hs, cms, serial, resource, action, force, action_fields) ==
    LET info == get_commission_info_of(resource, action)
        r == ResourceOf(resource.kind)
        one == << <<ResourceKey(resource.project, resource.kind),
                    info.resources[r]>> >>
        moved == << <<ResourceKey(action_fields.from_project, resource.kind),
                      -info.resources[r]>>,
                    <<ResourceKey(action_fields.to_project, resource.kind),
                      info.resources[r]>> >>
    IN  IF info.none
        THEN [status |-> "None", serial |-> NoSerial, holdings |-> hs,
              commissions |-> cms]
        ELSE IF action = "REASSIGN"
        THEN IF {"from_project", "to_project"} \subseteq DOMAIN action_fields
             THEN issue_commission(hs, cms, serial, CycladesClient, moved,
                                   force, SomeOrder(DOMAIN merge_same_keys(moved)))
             ELSE [status |-> "Exception", serial |-> NoSerial,
                   holdings |-> hs, commissions |-> cms]
        ELSE issue_commission(hs, cms, serial, CycladesClient, one, force,
                              SomeOrder(DOMAIN merge_same_keys(one)))

\* Holdings of the user for the kind of the resource at both projects.
InitialUsage == MaxOtherUsage

InitResources ==
    /\ \E kind \in Kinds, project \in Projects, room \in BOOLEAN :
         /\ holdings = [k \in {ResourceKey(p, kind) : p \in Projects} |->
                           [limit |-> IF room THEN InitialUsage + 2 ^ 30
                                      ELSE InitialUsage,
                            usage_min |-> InitialUsage,
                            usage_max |-> InitialUsage]]
         /\ quotable = [kind |-> kind, project |-> project, size |-> 1,
                        status |-> "none", serial |-> NoSerial]
    /\ commissions = EmptyMap
    /\ nextSerial = 1
    /\ provisionLog = {}
    /\ forced = {}
    /\ issuers = NoIssuers
    /\ mapCheck = NoMapCheck
    /\ serialsTable = <<>>
    /\ request = [action |-> "none", result |-> "none", to_project |-> "none"]
    /\ reconciler = IdleReconciler
    /\ issuedFor = <<>>
    /\ PithosIdle /\ VersionsIdle /\ StoreIdle

\* issue_and_accept_commission(resource, action, action_fields) in the
\* transaction of its caller; resource is the row as the caller has changed
\* it, done what the caller does to the row once the call has returned.
\* The previous serial of the resource is resolved, the commission is
\* issued, the serial is stored as one to accept and committed, then it is
\* accepted; a failure to accept is logged.  An exception before the commit
\* rolls the transaction back.
IssueAndAcceptCommission(resource, action, action_fields, done, accept) ==
    /\ nextSerial <= MaxWorkflowSerial
    /\ LET f    == handle_force(FALSE, action)
           what == resolve_resource_commission(quotable.serial, serialsTable, f)
       IN  \E p \in {resolve_commissions(holdings, commissions, provisionLog,
                        serialsTable,
                        IF what = "accept" THEN {quotable.serial} ELSE {},
                        IF what = "reject" THEN {quotable.serial} ELSE {})} :
           \E i \in {issue_commission_of(p.holdings, p.commissions, nextSerial,
                        resource, action, f, action_fields)} :
           \E table \in {Overlay(p.table,
                                 [s \in {i.serial} \ {NoSerial} |-> decided_accept])} :
           \E a \in {resolve_commissions(i.holdings, i.commissions, p.log,
                                         table, {i.serial} \ {NoSerial}, {})} :
             /\ request' = [action |-> action,
                            result |-> IF what = "ResolveError" THEN what
                                       ELSE i.status,
                            to_project |-> IF "to_project" \in DOMAIN action_fields
                                           THEN action_fields.to_project
                                           ELSE "none"]
             /\ i.status # "ok" => accept = "ok"
             /\ IF what = "ResolveError"
                THEN UNCHANGED <<quotaholderVars, serialsTable, quotable,
                                 issuedFor>>
                ELSE IF i.status \notin {"ok", "None"}
                THEN \* the previous serial is resolved at the quotaholder,
                     \* what the transaction wrote is rolled back
                     /\ holdings' = i.holdings
                     /\ commissions' = p.commissions
                     /\ provisionLog' = p.log
                     /\ UNCHANGED <<nextSerial, forced, issuers, mapCheck, serialsTable, quotable,
                                    issuedFor>>
                ELSE IF i.status = "None"
                THEN /\ holdings' = p.holdings
                     /\ commissions' = p.commissions
                     /\ provisionLog' = p.log
                     /\ serialsTable' = p.table
                     /\ quotable' = [done EXCEPT !.serial = NoSerial]
                     /\ UNCHANGED <<nextSerial, forced, issuers, mapCheck, issuedFor>>
                ELSE /\ nextSerial' = nextSerial + 1
                     /\ issuedFor' = [s \in DOMAIN issuedFor \cup {i.serial} |->
                                         IF s = i.serial THEN action
                                         ELSE issuedFor[s]]
                     /\ UNCHANGED <<forced, issuers, mapCheck>>
                     /\ IF accept = "unreachable"
                        THEN /\ holdings' = i.holdings
                             /\ commissions' = i.commissions
                             /\ provisionLog' = p.log
                        ELSE /\ holdings' = a.holdings
                             /\ commissions' = a.commissions
                             /\ provisionLog' = a.log
                     /\ serialsTable' = IF accept = "ok" THEN a.table ELSE table
                     /\ quotable' = [done EXCEPT !.serial =
                                        IF accept = "ok" THEN NoSerial
                                        ELSE i.serial]
    /\ UNCHANGED <<notCycladesVars, reconciler>>

\* create_floating_ip, and the creation of a Network or of a Volume, which
\* is CREATING when its commission is computed.
CreateResource(accept) ==
    /\ quotable.status = "none"
    /\ \E created \in {[quotable EXCEPT !.status =
                          IF quotable.kind = "Volume" THEN "CREATING"
                          ELSE "ACTIVE"]} :
         IssueAndAcceptCommission(created, "BUILD", <<>>, created, accept)

\* delete_floating_ip, and the deletion of a Network or of a Volume: the
\* resource is marked as deleted, then its quota is released.
DeleteResource(accept) ==
    /\ quotable.status \in {"ACTIVE", "CREATING"}
    /\ \E deleted \in {[quotable EXCEPT !.status = "DELETED"]} :
         IssueAndAcceptCommission(deleted, "DESTROY", <<>>, deleted, accept)

\* reassign_floating_ip(floating_ip, project)
reassign_floating_ip(project, accept) ==
    /\ quotable.kind = "IPAddress"
    /\ quotable.status = "ACTIVE"
    /\ IssueAndAcceptCommission(quotable, "REASSIGN",
                                [to_project |-> project],
                                [quotable EXCEPT !.project = project], accept)

NextResources ==
    \/ \E accept \in Replies : CreateResource(accept)
    \/ \E accept \in Replies : DeleteResource(accept)
    \/ \E project \in Projects, accept \in Replies :
         reassign_floating_ip(project, accept)
    \/ RecDecide
    \/ SomeRecResolve

SpecResources == InitResources /\ [][NextResources]_vars

\* ------------------------------------------- claims on the kinds of resource

\* C39: reassign_floating_ip issues a REASSIGN commission, and on return
\* the project of the floating IP is the project given.
C39_ReassignMovesFloatingIp ==
    [][(request' # request /\ request'.action = "REASSIGN")
       => /\ request'.result = "ok"
          /\ quotable'.project = request'.to_project
          /\ \E s \in DOMAIN issuedFor' \ DOMAIN issuedFor :
                issuedFor'[s] = "REASSIGN"]_vars

\* C40: once a resource that was charged on BUILD is deleted and no
\* commission is pending, the provisions of its DESTROY are the negation of
\* those of its BUILD and every holding has the usage it had before the
\* BUILD.
C40_DestroyReversesBuild ==
    (quotable.status = "DELETED" /\ commissions = EmptyMap)
        => /\ LET b == get_commission_info_of(
                          [quotable EXCEPT !.status =
                              IF quotable.kind = "Volume" THEN "CREATING"
                              ELSE "ACTIVE"], "BUILD")
                  d == get_commission_info_of(quotable, "DESTROY")
              IN  /\ ~b.none /\ ~d.none
                  /\ d.resources = [r \in DOMAIN b.resources |-> -b.resources[r]]
           /\ \A k \in DOMAIN holdings :
                 /\ holdings[k].usage_min = InitialUsage
                 /\ holdings[k].usage_max = InitialUsage

\* ================================== quotaholder: calls that issue at a time
\* issue_commission called by several callers at the same time, each call in
\* a transaction of its own.  _get_holdings_for_update selects every holding
\* of the holders of the call for update: the select waits while another
\* transaction holds the lock on one of these rows, and reads the rows as
\* committed once it has the locks; the locks are released when the
\* transaction ends.

\* Mutant: the rows are read without a lock.
select_for_update_unlocked(iss, c, key) == TRUE

\* objs.select_for_update() gets the locks of the rows of the holder of key:
\* no other transaction holds a lock on a row of this holder.
select_for_update(iss, c, key) ==
    \A d \in Callers \ {c} :
        iss[d].pc = "locked" => iss[d].key[1] # key[1]

InitIssuers ==
    /\ \E limit \in 0..(MaxLimit + 1) :
         holdings = [k \in HoldingKeys |->
                        [limit |-> limit, usage_min |-> 0, usage_max |-> 0]]
    /\ commissions = EmptyMap
    /\ nextSerial = 1
    /\ provisionLog = {}
    /\ forced = {}
    /\ issuers = NoIssuers
    /\ mapCheck = NoMapCheck
    /\ ServicesIdle

\* issue_commission(clientkey, [(key, quantity)], force=False) up to the
\* return of _get_holdings_for_update.
IssueLock(c, key, quantity) ==
    /\ issuers[c].pc = "idle"
    /\ nextSerial <= MaxWorkflowSerial
    /\ select_for_update(issuers, c, key)
    /\ issuers' = [issuers EXCEPT ![c] =
                      [pc |-> "locked", key |-> key, quantity |-> quantity,
                       seen |-> holdings, result |-> "none"]]
    /\ UNCHANGED <<holdings, commissions, nextSerial, provisionLog, forced,
                   mapCheck, serviceVars>>

\* The rest of the call and the commit: the provision is prepared on the
\* holding as read, the holding is saved and the commission is created; on
\* a QuotaholderError nothing is written.
IssueFinish(c) ==
    /\ issuers[c].pc = "locked"
    /\ LET key == issuers[c].key
           r == issue_commission(issuers[c].seen, commissions, nextSerial,
                                 "cyclades", << <<key, issuers[c].quantity>> >>,
                                 FALSE, <<key>>)
       IN  /\ IF r.status = "ok"
              THEN /\ holdings' = [holdings EXCEPT ![key] = r.holdings[key]]
                   /\ commissions' = r.commissions
                   /\ nextSerial' = nextSerial + 1
              ELSE UNCHANGED <<holdings, commissions, nextSerial>>
           /\ issuers' = [issuers EXCEPT ![c] =
                             [NoIssue EXCEPT !.result = r.status]]
    /\ UNCHANGED <<provisionLog, forced, mapCheck, serviceVars>>

\* The transaction of the call is aborted: its locks are released.
IssueAbort(c) ==
    /\ issuers[c].pc = "locked"
    /\ issuers' = [issuers EXCEPT ![c] = [NoIssue EXCEPT !.result = "aborted"]]
    /\ UNCHANGED <<holdings, commissions, nextSerial, provisionLog, forced,
                   mapCheck, serviceVars>>

NextIssuers ==
    \/ \E c \in Callers, key \in HoldingKeys, quantity \in 1..MaxQty :
         IssueLock(c, key, quantity)
    \/ \E c \in Callers : IssueFinish(c)
    \/ \E c \in Callers : IssueAbort(c)

SpecIssuers == InitIssuers /\ [][NextIssuers]_vars

\* C35: whatever the interleaving of the calls, no holding has usage_max
\* over its limit, and the usage_max of every holding is what was reserved
\* by the calls that succeeded: the sum of the quantities of the
\* commissions created.
C35_IssuesSerialized ==
    \A k \in DOMAIN holdings :
        /\ holdings[k].usage_max <= holdings[k].limit
        /\ holdings[k].usage_max = PendingSum(k, DOMAIN commissions, TRUE)
        /\ holdings[k].usage_min = 0

\* C35's case: calls on the same holding have filled it up to its limit of
\* two, each on the usage_max the one before it has written, and a further
\* call has been refused at that limit.
C35_Witness ==
    /\ \E k \in DOMAIN holdings :
         /\ holdings[k].usage_max = 2
         /\ holdings[k].limit = 2
    /\ \E c \in Callers : issuers[c].result = "QuotaLimit"
    /\ \E c \in Callers : issuers[c].result = "ok"

\* ================================== pithos.backends.modular: the listings
\* list_method and _list_limits on the listing a listing operation has
\* produced.  A name is written as its rank in the ascending order of the
\* names; a listing is ascending and has no name twice.

\* Names of the accounts, containers and objects that may be listed.
MaxNames == 3
\* marker=None, limit=None
NoMarker == 0
NoLimit == 0
\* the cap of _list_limits
ListingCap == 10000

Names == 1..MaxNames
Listings ==
    {l \in SeqsUpTo(Names, MaxNames) :
        \A i, j \in DOMAIN l : i < j => l[i] < l[j]}
Markers == {NoMarker} \cup Names
ListLimits == {NoLimit} \cup Names \cup {ListingCap + 1}

\* listing.index(marker) + 1, or 0 when the marker is not an entry of the
\* listing (ValueError).  The entries of an object listing are tuples
\* (name, properties...), which no marker equals.
list_start(listing, marker, tuples) ==
    IF marker # NoMarker /\ ~tuples /\ \E i \in DOMAIN listing : listing[i] = marker
    THEN Min({i \in DOMAIN listing : listing[i] = marker})
    ELSE 0

\* _list_limits
list_limits(listing, marker, limit, tuples) ==
    [start |-> list_start(listing, marker, tuples),
     limit |-> IF limit = NoLimit \/ limit > ListingCap THEN ListingCap
               ELSE limit]

\* result[start:start + limit]
Slice(listing, start, limit) ==
    SubSeq(listing, start + 1,
           IF start + limit < Len(listing) THEN start + limit ELSE Len(listing))

ListingResult(op, listing, marker, limit, tuples) ==
    LET l == list_limits(listing, marker, limit, tuples)
    IN  [op |-> op, listing |-> listing, marker |-> marker, limit |-> limit,
         result |-> Slice(listing, l.start, l.limit)]

\* list_method around list_accounts, and around list_containers for the
\* containers shared with the user: the listing is what the user is allowed
\* to see, in ascending order.
ListMethod(op, listing, marker, limit) ==
    /\ call' = ListingResult(op, listing, marker, limit, FALSE)
    /\ UNCHANGED <<quotaholderVars, cycladesVars, pithosVars, versionVars,
                   instanceVars, policyVars>>

\* _list_objects with public: the listing is the public objects of the
\* container as tuples, in the order of their paths.
ListPublicObjects(listing, marker, limit) ==
    /\ call' = ListingResult("list_objects", listing, marker, limit, TRUE)
    /\ UNCHANGED <<quotaholderVars, cycladesVars, pithosVars, versionVars,
                   instanceVars, policyVars>>

NextListings ==
    \/ \E op \in {"list_accounts", "list_containers"}, listing \in Listings,
          marker \in Markers, limit \in ListLimits :
         ListMethod(op, listing, marker, limit)
    \/ \E listing \in Listings, marker \in Markers, limit \in ListLimits :
         ListPublicObjects(listing, marker, limit)

SpecListings == Init /\ [][NextListings]_vars

\* C31: the result of a listing has only names greater than the marker, in
\* ascending order, and at most min(limit, 10000) of them, 10000 when no
\* limit is given.
C31_MarkerExclusiveLimitCapped ==
    call.op \in {"list_accounts", "list_containers", "list_objects"}
        => /\ call.marker # NoMarker
                => \A i \in DOMAIN call.result : call.result[i] > call.marker
           /\ \A i, j \in DOMAIN call.result :
                i < j => call.result[i] < call.result[j]
           /\ Len(call.result)
                <= IF call.limit = NoLimit \/ call.limit > ListingCap
                   THEN ListingCap ELSE call.limit

\* ============================ pithos.backends.modular: the map of a version
\* get_object_hashmap on a version whose map is kept by the block backend
\* and that was registered with available = False.  The clock ticks, and
\* the map may come to exist at the block backend.

\* Ticks of the clock before the model stops.
MaxTime == 6
\* map_check_interval, in ticks.
MapCheckInterval == 2

\* Mutant: a check that failed does not hold back the next one.
update_available_unthrottled(m) ==
    IF ~m.exists
    THEN [result |-> "IllegalOperationError", queried |-> TRUE,
          available |-> m.available, timestamp |-> m.now]
    ELSE [result |-> "ok", queried |-> TRUE, available |-> TRUE,
          timestamp |-> m.now]

\* _update_available, with what is committed when get_object_hashmap has
\* returned or raised: a check within map_check_interval of the last one
\* raises NotAllowedError before the block backend is asked; when the block
\* backend has no map, the timestamp is committed in a transaction of its
\* own and IllegalOperationError is raised; when it has the map, available
\* and the timestamp are written and committed with the call.
update_available(m) ==
    IF /\ ~m.available
       /\ m.timestamp # NoTimestamp
       /\ m.now - m.timestamp < MapCheckInterval
    THEN [result |-> "NotAllowedError", queried |-> FALSE,
          available |-> m.available, timestamp |-> m.timestamp]
    ELSE IF ~m.exists
    THEN [result |-> "IllegalOperationError", queried |-> TRUE,
          available |-> m.available, timestamp |-> m.now]
    ELSE [result |-> "ok", queried |-> TRUE, available |-> TRUE,
          timestamp |-> m.now]

notMapVars == <<holdings, commissions, nextSerial, provisionLog, forced,
                issuers, cycladesVars, pithosVars, versionVars, instanceVars,
                policyVars>>

\* get_object_hashmap by the owner, as one whole call.
GetObjectHashmap ==
    /\ \E r \in {update_available(mapCheck)} :
         /\ mapCheck' = [mapCheck EXCEPT !.available = r.available,
                                         !.timestamp = r.timestamp]
         /\ call' = [op |-> "get_object_hashmap", result |-> r.result,
                     queried |-> r.queried, at |-> mapCheck.now]
    /\ UNCHANGED notMapVars

Tick ==
    /\ mapCheck.now < MaxTime
    /\ mapCheck' = [mapCheck EXCEPT !.now = @ + 1]
    /\ UNCHANGED <<notMapVars, call>>

\* The map of the version is written to the block backend.
MapWritten ==
    /\ ~mapCheck.exists
    /\ mapCheck' = [mapCheck EXCEPT !.exists = TRUE]
    /\ UNCHANGED <<notMapVars, call>>

NextMaps ==
    \/ GetObjectHashmap
    \/ Tick
    \/ MapWritten

SpecMaps == Init /\ [][NextMaps]_vars

\* A step that is a read of the map of a version that is not available.
ReadOfUnavailable ==
    /\ mapCheck'.now = mapCheck.now
    /\ mapCheck'.exists = mapCheck.exists
    /\ ~mapCheck.available
Throttled ==
    /\ mapCheck.timestamp # NoTimestamp
    /\ mapCheck.now - mapCheck.timestamp < MapCheckInterval
FirstReadOrLater(refusal) ==
    /\ (~Throttled /\ mapCheck.exists)
          => /\ mapCheck'.available
             /\ call'.result = "ok"
    /\ (~Throttled /\ ~mapCheck.exists)
          => /\ mapCheck'.timestamp = mapCheck.now
             /\ ~mapCheck'.available
             /\ call'.result = "IllegalOperationError"
             /\ call'.queried
    /\ Throttled
          => /\ call'.result = refusal
             /\ ~call'.queried
             /\ mapCheck' = mapCheck

\* C32 (as stated): a read of the map of a version that is not available
\* makes it available when the block backend has the map; otherwise it
\* records map_check_timestamp as now and fails with IllegalOperation, and a
\* further read within map_check_interval of the timestamp fails with
\* IllegalOperation too, without asking the block backend.
C32_ThrottledIllegalOperation ==
    [][ReadOfUnavailable => FirstReadOrLater("IllegalOperationError")]_vars

\* C32 as amended: the same, but a further read within map_check_interval
\* of the timestamp fails with NotAllowedError, without asking the block
\* backend and without writing anything.
C32_ThrottledNotAllowed ==
    [][ReadOfUnavailable => FirstReadOrLater("NotAllowedError")]_vars

\* C32's case: a read was refused within the interval of a failed check
\* without asking the block backend, although the block backend has the map
\* by now.
C32_Witness ==
    /\ call.op = "get_object_hashmap"
    /\ call.result = "NotAllowedError"
    /\ ~call.queried
    /\ mapCheck.exists
    /\ ~mapCheck.available
    /\ mapCheck.timestamp # NoTimestamp

====
